---- MODULE Spec2Model ----
(***************************************************************************)
(* Setup orchestrator of ClawdBody: the start endpoint                     *)
(* (src/app/api/setup/start/route.ts), its detached runSetupProcess runs,  *)
(* the delete-computer / reset endpoint (src/app/api/setup/status/route.ts) *)
(* and the GitHub sign-in callback, all acting on one user's SetupState     *)
(* record (the persisted WorkflowState).                                    *)
(*                                                                          *)
(* A step of a request or run is one access of the row together with the   *)
(* calls that follow it up to the next access: those calls (Orgo, GitHub,   *)
(* the VM, other tables) touch nothing another request touches, so they     *)
(* commute with the steps of the other requests.  Collaborators answer      *)
(* nondeterministically.                                                    *)
(***************************************************************************)
EXTENDS Integers, Sequences, FiniteSets, TLC

\* ---------------------------------------------------------------- bounds
\* Number of start requests (each launches one detached run).
MaxRuns == 2

\* ------------------------------------------------------- program constants
\* let retries = 3 (the machine-creation loop)
CreateRetries == 3

Runs == 1..MaxRuns

NULL == "null"

Statuses == {"pending", "provisioning", "creating_repo", "configuring_vm", "ready", "failed"}

StepFlags == {"vmCreated", "repoCreated", "repoCloned", "browserUseInstalled",
              "gitSyncConfigured", "ralphWiggumSetup"}

\* The repository a run creates is named after the run (Date.now() makes the
\* name unique), and so is the one the sign-in callback creates.
RunRepo(r) == "samantha-vault-run" \o ToString(r)
SignInRepo == "samantha-vault-signin"
RepoUrl(name) == "https://github.com/u/" \o name

\* The machine a run obtains is named after the run (generateComputerName()).
RunComputer(r) == "computer-" \o ToString(r)
ComputerUrl(id) == "https://www.orgo.ai/" \o id

VARIABLES
  db,        \* the user's SetupState record (exists = FALSE: no row yet)
  pc,        \* pc[r]: where start request / run r stands
  loc,       \* loc[r]: the locals of request / run r, and what it has observed
  clean,     \* TRUE while one start at most was made and no call has failed
  lib        \* a Step Library action run against a scripted command client

vars == <<db, pc, loc, clean, lib>>

\* ------------------------------------------------------------ the record
\* Prisma defaults of a new SetupState row.
NewRow ==
  [exists |-> TRUE, status |-> "pending", errorMessage |-> NULL,
   claudeApiKey |-> NULL,
   vmCreated |-> FALSE, repoCreated |-> FALSE, repoCloned |-> FALSE,
   browserUseInstalled |-> FALSE, gitSyncConfigured |-> FALSE,
   ralphWiggumSetup |-> FALSE,
   orgoProjectId |-> NULL, orgoComputerId |-> NULL, orgoComputerUrl |-> NULL,
   vmStatus |-> NULL, vaultRepoName |-> NULL, vaultRepoUrl |-> NULL]

\* No row: what GET /api/setup/status reports for it is status 'pending'.
NoRow == [NewRow EXCEPT !.exists = FALSE]

\* prisma.setupState.update({ data }): a partial field merge.
Merge(row, data) ==
  [f \in DOMAIN row |-> IF f \in DOMAIN data THEN data[f] ELSE row[f]]

AllFlagsTrue(row) == \A f \in StepFlags : row[f] = TRUE

\* ------------------------------------------- the Step Library (VMSetup)
\* The actions of VMSetup are run against a Remote Command Client that
\* answers from a script: its k-th call gets the k-th answer, and the calls
\* past the end of the script get the last one.  What an action does is
\* kept as the trace of its client calls and sleeps.

\* Length of the scripts.
MaxScript == 3

\* Largest number of client calls a machine answers before the first of
\* its faulty answers, and largest number of faulty answers in a row, in the
\* scripts given to runFullSetup.
MaxGood == 25
MaxFaults == 3

\* Largest value of the retries / maxRetries parameter.
MaxRetriesParam == 3

\* Largest number of repositories handed to cloneRepositories.
MaxRepos == 3

\* Number of cloneVaultRepo invocations made in a row, and length of the
\* scripts that say how the machine and the network behave at each call.
MaxClones == 2
MaxEnvs == 2

\* retries: number = 2
DefaultRetries == 2

\* (attempt + 1) * 2000
BackoffMs == 2000

\* this.waitForVMReady(15, 5000)
ReadyPolls == 15
ReadyDelayMs == 5000

\* let retries = 3, and the 3000 ms between two attempts of installPython
InstallRetries == 3
InstallDelayMs == 3000

\* Messages of the errors orgo.bash raises.
ErrorMessages ==
  {"502 Bad Gateway", "Failed to execute command", "connect ECONNREFUSED",
   "Request timed out", "socket hang up"}

\* message.includes(part), for the messages above and the parts the code
\* looks for.
Includes(message, part) ==
  CASE message = "502 Bad Gateway" -> part = "502"
    [] message = "Failed to execute command" -> part = "Failed to execute"
    [] message = "connect ECONNREFUSED" -> part = "ECONNREFUSED"
    [] message = "Request timed out" -> part = "timed out"
    [] message = "# Ralph Wiggum" -> part = "Ralph Wiggum"
    [] message = "connect ETIMEDOUT" -> part = "ETIMEDOUT"
    [] OTHER -> FALSE

\* What one call of orgo.bash does: it returns { exit_code, output }, raises
\* an Error with a message, or throws a value that is no Error.
Result(code, output) == [kind |-> "result", exit_code |-> code, text |-> output]
Raised(message) == [kind |-> "error", exit_code |-> 0, text |-> message]
NotAnError == [kind |-> "thrown", exit_code |-> 0, text |-> ""]
NoAnswer == [kind |-> "none", exit_code |-> 0, text |-> ""]

Answers ==
  {Result(code, "output") : code \in {0, 1}}
    \cup {Raised(m) : m \in ErrorMessages}
    \cup {NotAnError}

Scripts == UNION {[1..n -> Answers] : n \in 1..MaxScript}

Answer(script, k) == script[IF k <= Len(script) THEN k ELSE Len(script)]

\* The events of a trace: a call of orgo.bash with its answer, a sleep, and
\* a ProgressEvent handed to onProgress (of which the command it reports on
\* and its success field are kept).
Bash(command, a) ==
  [ev |-> "bash", cmd |-> command, ans |-> a, ms |-> 0, ok |-> FALSE]
Sleep(ms) ==
  [ev |-> "sleep", cmd |-> "", ans |-> NoAnswer, ms |-> ms, ok |-> FALSE]
Progress(command, success) ==
  [ev |-> "progress", cmd |-> command, ans |-> NoAnswer, ms |-> 0, ok |-> success]

\* A ProgressEvent an action hands to onProgress itself, outside runCommand
\* (they all have success: true); its step is kept.
Notice(step) ==
  [ev |-> "notice", cmd |-> step, ans |-> NoAnswer, ms |-> 0, ok |-> TRUE]

\* The client calls, the sleeps and the ProgressEvents of a trace, in order.
BashCalls(trace) == SelectSeq(trace, LAMBDA e : e.ev = "bash")
Sleeps(trace) == SelectSeq(trace, LAMBDA e : e.ev = "sleep")
ProgressEvents(trace) ==
  SelectSeq(trace, LAMBDA e : e.ev \in {"progress", "notice"})

\* output.trim(), for the outputs of the scripts.
Trim(text) ==
  CASE text = "\n" -> ""
    [] text = "DONE\n" -> "DONE"
    [] text = "PENDING\n" -> "PENDING"
    [] OTHER -> text

\* What an action gives back to its caller: the value it returns (success,
\* and output where it has one), or an exception (threw), and what it did.
Return(success, output, trace) ==
  [success |-> success, output |-> output, trace |-> trace, threw |-> FALSE]
Throw(trace) ==
  [success |-> FALSE, output |-> "", trace |-> trace, threw |-> TRUE]

\* vm-setup 30-70: runCommand, its for loop from `attempt` on.
RECURSIVE runCommandFrom(_, _, _, _, _)
runCommandFrom(script, trace, command, retries, attempt) ==
  IF attempt > retries
    THEN Return(FALSE, "Unknown error", trace)
    ELSE
      LET a == Answer(script, Len(BashCalls(trace)) + 1)
          called == Append(trace, Bash(command, a))
          message == IF a.kind = "error" THEN a.text ELSE "Unknown error"
      IN  IF a.kind = "result"
            THEN Return(a.exit_code = 0, a.text,
                        Append(called, Progress(command, a.exit_code = 0)))
            ELSE IF /\ attempt < retries
                    /\ \/ Includes(message, "502")
                       \/ Includes(message, "Failed to execute")
                       \/ Includes(message, "ECONNREFUSED")
                   THEN runCommandFrom(script,
                                       Append(called, Sleep((attempt + 1) * BackoffMs)),
                                       command, retries, attempt + 1)
                   ELSE Return(FALSE, message,
                               Append(called, Progress(command, FALSE)))

\* Faulty variant of runCommand: a command that failed is issued once more.
runCommandRetryingFailure(script, trace, command, retries) ==
  LET first == runCommandFrom(script, trace, command, retries, 0) IN
    IF first.success \/ retries = 0
      THEN first
      ELSE runCommandFrom(script, first.trace, command, retries - 1, 0)

\* Faulty variant of runCommand: the attempts are counted from 1.
runCommandCountingFromOne(script, trace, command, retries) ==
  runCommandFrom(script, trace, command, retries, 1)

\* Faulty variant of runCommand: the terminal error is thrown again.
runCommandRethrowing(script, trace, command, retries) ==
  LET r == runCommandFrom(script, trace, command, retries, 0)
      calls == BashCalls(r.trace)
  IN  IF calls[Len(calls)].ans.kind # "result" THEN Throw(r.trace) ELSE r

\* Faulty variant of runCommand: the outcome is reported to onProgress twice.
runCommandReportingTwice(script, trace, command, retries) ==
  LET r == runCommandFrom(script, trace, command, retries, 0) IN
    [r EXCEPT !.trace = Append(@, Progress(command, r.success))]

runCommand(script, trace, command, retries) ==
  runCommandFrom(script, trace, command, retries, 0)

\* vm-setup 204-220: waitForVMReady, its for loop from i on.
RECURSIVE waitForVMReadyFrom(_, _, _, _, _)
waitForVMReadyFrom(script, trace, maxRetries, delayMs, i) ==
  IF i < maxRetries
    THEN
      LET a == Answer(script, Len(BashCalls(trace)) + 1)
          called == Append(trace, Bash("echo ready", a))
      IN  IF a.kind = "result" /\ a.exit_code = 0
            THEN Return(TRUE, "", called)
            ELSE waitForVMReadyFrom(script,
                                    IF i < maxRetries - 1
                                      THEN Append(called, Sleep(delayMs))
                                      ELSE called,
                                    maxRetries, delayMs, i + 1)
    ELSE Return(FALSE, "", trace)

\* Faulty variant of waitForVMReady: one poll more than asked for.
waitForVMReadyOnePollMore(script, trace, maxRetries, delayMs) ==
  waitForVMReadyFrom(script, trace, maxRetries + 1, delayMs, 0)

waitForVMReady(script, trace, maxRetries, delayMs) ==
  waitForVMReadyFrom(script, trace, maxRetries, delayMs, 0)

\* vm-setup 242-256: the while loop of installPython on one command.
RECURSIVE installPythonCommand(_, _, _, _)

\* Faulty variant of installPythonCommand: the next attempt is made at once.
installPythonCommandWithoutWait(script, trace, cmd, retries) ==
  IF retries > 0
    THEN
      LET result == runCommand(script, trace, cmd, DefaultRetries) IN
        IF result.threw
          THEN result
        ELSE IF result.success
          THEN Return(TRUE, "", result.trace)
          ELSE installPythonCommand(script, result.trace, cmd, retries - 1)
    ELSE Return(FALSE, "", trace)

installPythonCommand(script, trace, cmd, retries) ==
  IF retries > 0
    THEN
      LET result == runCommand(script, trace, cmd, DefaultRetries) IN
        IF result.threw
          THEN result
        ELSE IF result.success
          THEN Return(TRUE, "", result.trace)
          ELSE installPythonCommand(script,
                                    IF retries - 1 > 0
                                      THEN Append(result.trace, Sleep(InstallDelayMs))
                                      ELSE result.trace,
                                    cmd, retries - 1)
    ELSE Return(FALSE, "", trace)

\* vm-setup 235-239
InstallPythonCommands ==
  <<"sudo apt-get update -qq", "sudo apt-get install -y -qq python3 ...">>

RECURSIVE installPythonFrom(_, _, _)

\* Faulty variant of installPythonFrom: each command gets one attempt more.
installPythonFromOneAttemptMore(script, trace, k) ==
  IF k <= Len(InstallPythonCommands)
    THEN
      LET done == installPythonCommand(script, trace, InstallPythonCommands[k],
                                       InstallRetries + 1) IN
        IF done.threw
          THEN done
        ELSE IF done.success
          THEN installPythonFrom(script, done.trace, k + 1)
          ELSE Return(FALSE, "", done.trace)
    ELSE Return(TRUE, "", trace)

\* vm-setup 241-264: the for loop of installPython from command k on.
installPythonFrom(script, trace, k) ==
  IF k <= Len(InstallPythonCommands)
    THEN
      LET done == installPythonCommand(script, trace, InstallPythonCommands[k],
                                       InstallRetries) IN
        IF done.threw
          THEN done
        ELSE IF done.success
          THEN installPythonFrom(script, done.trace, k + 1)
          ELSE Return(FALSE, "", done.trace)
    ELSE Return(TRUE, "", trace)

\* vm-setup 225-265
installPython(script, trace) ==
  LET vmReady == waitForVMReady(script, trace, ReadyPolls, ReadyDelayMs) IN
    IF vmReady.threw
      THEN vmReady
    ELSE IF ~vmReady.success
      THEN Return(FALSE, "", vmReady.trace)
      ELSE installPythonFrom(script, vmReady.trace, 1)

\* What the machine answers to the commands of the configuration actions:
\* exit code 0, a nonzero exit code, a transport error that is not retried
\* and one that is.
StepAnswers ==
  {Result(0, "output"), Result(1, "output"),
   Raised("Request timed out"), Raised("502 Bad Gateway")}

\* The scripts that give n client calls an answer each.
ScriptsOf(answers, n) == [1..n -> answers]

\* vm-setup 142-148
ConfigureGitCommands ==
  <<"git config --global user.name", "git config --global user.email",
    "git config --global init.defaultBranch main",
    "mkdir -p ~/.ssh && ssh-keyscan github.com >> ~/.ssh/known_hosts">>

RECURSIVE configureGitFrom(_, _, _)

\* Faulty variant of configureGitFrom: a best-effort pass over the commands.
configureGitFromIgnoringFailure(script, trace, k) ==
  IF k <= Len(ConfigureGitCommands)
    THEN
      LET result == runCommand(script, trace, ConfigureGitCommands[k],
                               DefaultRetries) IN
        configureGitFrom(script, result.trace, k + 1)
    ELSE Return(TRUE, "", trace)

\* vm-setup 150-155: the for loop of configureGit from command k on.
configureGitFrom(script, trace, k) ==
  IF k <= Len(ConfigureGitCommands)
    THEN
      LET result == runCommand(script, trace, ConfigureGitCommands[k],
                               DefaultRetries) IN
        IF result.threw
          THEN result
        ELSE IF ~result.success
          THEN Return(FALSE, "", result.trace)
          ELSE configureGitFrom(script, result.trace, k + 1)
    ELSE Return(TRUE, "", trace)

\* vm-setup 141-156
configureGit(script, trace) == configureGitFrom(script, trace, 1)

\* vm-setup 78, 89, 97, 109, 115, 125: the commands of generateSSHKey.
SshMkdir == "mkdir -p ~/.ssh && chmod 700 ~/.ssh"
SshCheck == "which ssh-keygen || command -v ssh-keygen"
SshInstall == "sudo apt-get update -qq && sudo apt-get install -y -qq openssh-client"
SshRemove == "rm -f ~/.ssh/id_ed25519 ~/.ssh/id_ed25519.pub"
SshKeygen == "ssh-keygen -t ed25519 -f ~/.ssh/id_ed25519"
SshReadKey == "cat ~/.ssh/id_ed25519.pub"

\* What the machine answers to the commands of generateSSHKey: exit code 0
\* with an output or with a blank one, a nonzero exit code, a transport error.
SshAnswers ==
  {Result(0, "output"), Result(0, "\n"), Result(1, "output"),
   Raised("Request timed out")}

\* vm-setup 107-135: generateSSHKey from the removal of the prior key on.  The
\* result of the removal is not looked at.
generateSSHKeyFromRemove(script, trace) ==
  LET removed == runCommand(script, trace, SshRemove, DefaultRetries)
      keyGen == runCommand(script, removed.trace, SshKeygen, DefaultRetries)
      pubKey == runCommand(script, keyGen.trace, SshReadKey, DefaultRetries)
  IN  IF removed.threw THEN removed
      ELSE IF keyGen.threw THEN keyGen
      ELSE IF ~keyGen.success THEN Return(FALSE, "", keyGen.trace)
      ELSE IF pubKey.threw THEN pubKey
      ELSE IF ~pubKey.success \/ Trim(pubKey.output) = ""
        THEN Return(FALSE, "", pubKey.trace)
        ELSE Return(TRUE, Trim(pubKey.output), pubKey.trace)

\* vm-setup 75-136: publicKey is the output of the result.
generateSSHKey(script, trace) ==
  LET mkdirResult == runCommand(script, trace, SshMkdir, DefaultRetries)
      checkSshKeygen == runCommand(script, mkdirResult.trace, SshCheck,
                                   DefaultRetries)
      installSsh == runCommand(script, checkSshKeygen.trace, SshInstall,
                               DefaultRetries)
  IN  IF mkdirResult.threw THEN mkdirResult
      ELSE IF ~mkdirResult.success THEN Return(FALSE, "", mkdirResult.trace)
      ELSE IF checkSshKeygen.threw THEN checkSshKeygen
      ELSE IF ~checkSshKeygen.success \/ Trim(checkSshKeygen.output) = ""
        THEN IF installSsh.threw THEN installSsh
             ELSE IF ~installSsh.success
               THEN Return(FALSE, "", installSsh.trace)
               ELSE generateSSHKeyFromRemove(script, installSsh.trace)
        ELSE generateSSHKeyFromRemove(script, checkSshKeygen.trace)

\* vm-setup 401-407, 425-431, 436-439, 457-460: the commands of setupGitSync.
SyncWriteScript == "cat > ~/sync-vault.sh; chmod +x ~/sync-vault.sh"
SyncWriteDaemon == "cat > ~/vault-sync-daemon.sh; chmod +x ~/vault-sync-daemon.sh"
SyncCron == "(crontab -l | grep -v sync-vault.sh; echo * * * * * /root/sync-vault.sh) | crontab -"
SyncStartDaemon == "nohup ~/vault-sync-daemon.sh > /dev/null 2>&1 &"

\* Faulty variant of setupGitSyncFromCron: the loop is launched whatever the
\* registration of the cron job gave.
setupGitSyncFromCronLaunchingBoth(script, trace) ==
  LET cronResult == runCommand(script, trace, SyncCron, DefaultRetries)
      startDaemon == runCommand(script, Append(cronResult.trace, Notice("Git Sync")),
                                SyncStartDaemon, DefaultRetries)
  IN  Return(startDaemon.success, "", startDaemon.trace)

\* vm-setup 435-462: setupGitSync from the registration of the cron job on.
setupGitSyncFromCron(script, trace) ==
  LET cronResult == runCommand(script, trace, SyncCron, DefaultRetries)
      startDaemon == runCommand(script, Append(cronResult.trace, Notice("Git Sync")),
                                SyncStartDaemon, DefaultRetries)
  IN  IF cronResult.threw THEN cronResult
      ELSE IF cronResult.success
        THEN Return(TRUE, "", Append(cronResult.trace, Notice("Git Sync")))
      ELSE IF startDaemon.threw THEN startDaemon
      ELSE Return(startDaemon.success, "", startDaemon.trace)

\* vm-setup 393-463
setupGitSync(script, trace) ==
  LET createScript == runCommand(script, trace, SyncWriteScript, DefaultRetries)
      createDaemon == runCommand(script, createScript.trace, SyncWriteDaemon,
                                 DefaultRetries)
  IN  IF createScript.threw THEN createScript
      ELSE IF ~createScript.success THEN Return(FALSE, "", createScript.trace)
      ELSE IF createDaemon.threw THEN createDaemon
      ELSE IF ~createDaemon.success THEN Return(FALSE, "", createDaemon.trace)
      ELSE setupGitSyncFromCron(script, createDaemon.trace)

\* vm-setup 480-483, 491-494, 534-540, 548-562, 568-571: the commands of
\* setupRalphWiggum.
RalphDownload == "curl -fsSL RALPH_GIST_URL -o ~/ralph_wiggum.py && chmod +x ~/ralph_wiggum.py"
RalphVerify == "head -5 ~/ralph_wiggum.py"
RalphWrapper == "cat > ~/start-ralph.sh; chmod +x ~/start-ralph.sh"
RalphKillWrapper == "pkill -f start-ralph.sh 2>/dev/null || true"
RalphKillScript == "pkill -f ralph_wiggum.py 2>/dev/null || true"
RalphRemoveLock == "rm -f /tmp/ralph_task.lock 2>/dev/null || true"
RalphStart == "nohup ~/start-ralph.sh > /dev/null 2>&1 &"

\* setTimeout(resolve, 2000) between the cleanup and the relaunch
RalphCleanupMs == 2000

\* What the machine answers to the commands of setupRalphWiggum: exit code 0
\* with the head of the script or with another output, a nonzero exit code,
\* a transport error.
RalphAnswers ==
  {Result(0, "# Ralph Wiggum"), Result(0, "output"), Result(1, "output"),
   Raised("Request timed out")}

\* Faulty variant of setupRalphWiggumFromCleanup: a cleanup command that
\* fails ends the action.
setupRalphWiggumFromCleanupStrict(script, trace) ==
  LET cleanup1 == runCommand(script, trace, RalphKillWrapper, DefaultRetries)
      cleanup2 == runCommand(script, cleanup1.trace, RalphKillScript,
                             DefaultRetries)
      removed == runCommand(script, cleanup2.trace, RalphRemoveLock,
                            DefaultRetries)
      startRalph == runCommand(script, Append(removed.trace, Sleep(RalphCleanupMs)),
                               RalphStart, DefaultRetries)
  IN  IF ~cleanup1.success THEN Return(FALSE, "", cleanup1.trace)
      ELSE IF ~cleanup2.success THEN Return(FALSE, "", cleanup2.trace)
      ELSE IF ~removed.success THEN Return(FALSE, "", removed.trace)
      ELSE Return(startRalph.success, "", startRalph.trace)

\* vm-setup 544-581: setupRalphWiggum from the cleanup on.  The results of
\* the three cleanup commands are not looked at.
setupRalphWiggumFromCleanup(script, trace) ==
  LET cleanup1 == runCommand(script, trace, RalphKillWrapper, DefaultRetries)
      cleanup2 == runCommand(script, cleanup1.trace, RalphKillScript,
                             DefaultRetries)
      removed == runCommand(script, cleanup2.trace, RalphRemoveLock,
                            DefaultRetries)
      startRalph == runCommand(script, Append(removed.trace, Sleep(RalphCleanupMs)),
                               RalphStart, DefaultRetries)
  IN  IF cleanup1.threw THEN cleanup1
      ELSE IF cleanup2.threw THEN cleanup2
      ELSE IF removed.threw THEN removed
      ELSE IF startRalph.threw THEN startRalph
      ELSE IF startRalph.success
        THEN Return(TRUE, "", Append(startRalph.trace, Notice("Ralph Wiggum")))
        ELSE Return(FALSE, "", startRalph.trace)

\* vm-setup 470-582
setupRalphWiggum(script, trace) ==
  LET downloadResult == runCommand(script, Append(trace, Notice("Ralph Wiggum")),
                                   RalphDownload, DefaultRetries)
      verifyResult == runCommand(script, downloadResult.trace, RalphVerify,
                                 DefaultRetries)
      createWrapper == runCommand(script,
                                  Append(verifyResult.trace, Notice("Ralph Wiggum")),
                                  RalphWrapper, DefaultRetries)
  IN  IF downloadResult.threw THEN downloadResult
      ELSE IF ~downloadResult.success
        THEN Return(FALSE, "", downloadResult.trace)
      ELSE IF verifyResult.threw THEN verifyResult
      ELSE IF ~verifyResult.success
              \/ ~Includes(verifyResult.output, "Ralph Wiggum")
        THEN Return(FALSE, "", verifyResult.trace)
      ELSE IF createWrapper.threw THEN createWrapper
      ELSE IF ~createWrapper.success
        THEN Return(FALSE, "", createWrapper.trace)
      ELSE setupRalphWiggumFromCleanup(script, createWrapper.trace)

\* The i-th item of the list handed to cloneRepositories: its name (its
\* sshUrl is a function of the name).
RepoName(i) == "repo" \o ToString(i)
Repos(n) == [i \in 1..n |-> RepoName(i)]

\* vm-setup 179 and 185-188: the commands of cloneRepositories.
ReposMkdir == "mkdir -p ~/repositories"
CloneCommand(name) ==
  "rm -rf ~/repositories/" \o name \o " && git clone git@github.com:u/" \o name
    \o ".git ~/repositories/" \o name

\* vm-setup 195-198: what cloneRepositories returns (errors is left
\* undefined when it is empty).
CloneResult(errors, trace) ==
  [success |-> Len(errors) = 0, output |-> "", trace |-> trace,
   threw |-> FALSE, errors |-> errors]

RECURSIVE cloneRepositoriesFrom(_, _, _, _, _)

\* Faulty variant of cloneRepositoriesFrom: the first item that fails ends
\* the loop.
cloneRepositoriesFromAbortingOnFailure(script, trace, repos, errors, k) ==
  IF k <= Len(repos)
    THEN
      LET result == runCommand(script, trace, CloneCommand(repos[k]),
                               DefaultRetries) IN
        IF ~result.success
          THEN CloneResult(Append(errors, [repo |-> repos[k],
                                           error |-> result.output]),
                           result.trace)
          ELSE cloneRepositoriesFrom(script, result.trace, repos, errors, k + 1)
    ELSE CloneResult(errors, trace)

\* vm-setup 181-198: the for loop of cloneRepositories from item k on, and
\* the return.
cloneRepositoriesFrom(script, trace, repos, errors, k) ==
  IF k <= Len(repos)
    THEN
      LET result == runCommand(script, trace, CloneCommand(repos[k]),
                               DefaultRetries) IN
        IF result.threw
          THEN result
          ELSE cloneRepositoriesFrom(script, result.trace, repos,
                                     IF ~result.success
                                       THEN Append(errors, [repo |-> repos[k],
                                                            error |-> result.output])
                                       ELSE errors,
                                     k + 1)
    ELSE CloneResult(errors, trace)

\* vm-setup 174-199: the result of the mkdir is not looked at.
cloneRepositories(script, trace, repos) ==
  LET made == runCommand(script, trace, ReposMkdir, DefaultRetries) IN
    IF made.threw
      THEN made
      ELSE cloneRepositoriesFrom(script, made.trace, repos, <<>>, 1)

\* vm-setup 326-332, 339-342, 351-354, 364-367, 379-382: the commands of
\* installBrowserUse.
BrowserWrite == "cat > /tmp/install-browser-use.sh; chmod +x /tmp/install-browser-use.sh"
BrowserLaunch == "nohup /tmp/install-browser-use.sh > /tmp/browser-use-install-out.log 2>&1 &"
BrowserCheck == "grep -q INSTALL_COMPLETE /tmp/browser-use-install.log && echo DONE || echo PENDING"
BrowserVerify == "~/browser-use-env/bin/python -c import browser_use"
BrowserTail == "tail -20 /tmp/browser-use-install.log"

\* const maxAttempts = 30, const intervalMs = 10000
BrowserPolls == 30
BrowserIntervalMs == 10000

\* What the machine answers to the commands of installBrowserUse: exit code 0
\* with an output, with DONE or with PENDING, a nonzero exit code, a
\* transport error that is not retried and one that is.
BrowserAnswers ==
  {Result(0, "output"), Result(0, "DONE\n"), Result(0, "PENDING\n"),
   Result(1, "output"), Raised("Request timed out"), Raised("502 Bad Gateway")}

RECURSIVE installBrowserUsePoll(_, _, _)

\* Faulty variant of installBrowserUsePoll: the sentinel is trusted, the
\* installation is not verified.
installBrowserUsePollTrustingSentinel(script, trace, i) ==
  IF i < BrowserPolls
    THEN
      LET checkResult == runCommand(script, Append(trace, Sleep(BrowserIntervalMs)),
                                    BrowserCheck, DefaultRetries)
      IN  IF Trim(checkResult.output) = "DONE"
            THEN Return(TRUE, "",
                        Append(checkResult.trace, Notice("Install browser-use")))
            ELSE installBrowserUsePoll(script,
                                       Append(checkResult.trace,
                                              Notice("Install browser-use")),
                                       i + 1)
    ELSE Return(FALSE, "", trace)

\* vm-setup 348-385: the poll loop of installBrowserUse from poll i on, and
\* what follows it.
installBrowserUsePoll(script, trace, i) ==
  IF i < BrowserPolls
    THEN
      LET checkResult == runCommand(script, Append(trace, Sleep(BrowserIntervalMs)),
                                    BrowserCheck, DefaultRetries)
          verify == runCommand(script,
                               Append(checkResult.trace, Notice("Install browser-use")),
                               BrowserVerify, DefaultRetries)
      IN  IF checkResult.threw THEN checkResult
          ELSE IF Trim(checkResult.output) = "DONE"
            THEN IF verify.threw
                   THEN verify
                   ELSE Return(verify.success, "", verify.trace)
            ELSE installBrowserUsePoll(script,
                                       Append(checkResult.trace,
                                              Notice("Install browser-use")),
                                       i + 1)
    ELSE
      LET logResult == runCommand(script, trace, BrowserTail, DefaultRetries) IN
        IF logResult.threw
          THEN logResult
          ELSE Return(FALSE, "", logResult.trace)

\* vm-setup 304-386: the result of the launch is not looked at.
installBrowserUse(script, trace) ==
  LET writeScript == runCommand(script, trace, BrowserWrite, DefaultRetries)
      launched == runCommand(script, writeScript.trace, BrowserLaunch,
                             DefaultRetries)
  IN  IF writeScript.threw THEN writeScript
      ELSE IF ~writeScript.success THEN Return(FALSE, "", writeScript.trace)
      ELSE IF launched.threw THEN launched
      ELSE installBrowserUsePoll(script, launched.trace, 0)

\* vm-setup 163-166: the command of cloneVaultRepo.
VaultCommand == "rm -rf ~/vault && git clone sshUrl ~/vault"

\* vm-setup 161-169
cloneVaultRepo(script, trace) ==
  LET result == runCommand(script, trace, VaultCommand, DefaultRetries) IN
    IF result.threw
      THEN result
      ELSE Return(result.success, "", result.trace)

\* The machine on which VaultCommand runs.  ~/vault is the set of the files
\* in it (empty: no such directory); the repository at sshUrl holds
\* RepoFiles.  A call of the client meets one of these conditions: all is
\* well, rm fails, git clone fails, the request is lost before the command
\* runs (with a timeout, or with a gateway error), the answer is lost after
\* the command has run.
RepoFiles == {".git", "README.md"}
VaultContents ==
  {{}, {"stale.md"}, RepoFiles, RepoFiles \cup {"stale.md"}}
Envs == {"ok", "rm_fails", "clone_fails", "lost_before", "gateway", "lost_after"}

\* rm -rf ~/vault
RmRf(dir, env) ==
  IF env = "rm_fails" THEN [dir |-> dir, code |-> 1] ELSE [dir |-> {}, code |-> 0]

\* git clone sshUrl ~/vault: git refuses a directory that is not empty.
GitClone(dir, env) ==
  IF dir # {} \/ env = "clone_fails"
    THEN [dir |-> dir, code |-> 128]
    ELSE [dir |-> RepoFiles, code |-> 0]

\* Faulty variant of VaultShell: the directory is not removed first.
VaultShellWithoutRemoval(dir, env) == GitClone(dir, env)

\* rm -rf ~/vault && git clone sshUrl ~/vault
VaultShell(dir, env) ==
  LET removed == RmRf(dir, env) IN
    IF removed.code # 0 THEN removed ELSE GitClone(removed.dir, env)

\* One call of orgo.bash with VaultCommand: what becomes of ~/vault, and the
\* answer the client gives.
Exec(dir, env) ==
  IF env = "lost_before"
    THEN [dir |-> dir, ans |-> Raised("Request timed out")]
  ELSE IF env = "gateway"
    THEN [dir |-> dir, ans |-> Raised("502 Bad Gateway")]
  ELSE LET ran == VaultShell(dir, env) IN
         [dir |-> ran.dir,
          ans |-> IF env = "lost_after"
                    THEN Raised("Request timed out")
                    ELSE Result(ran.code, "output")]

\* ~/vault after k calls of the client, from dir0.
RECURSIVE DirAfter(_, _, _)
DirAfter(dir0, envs, k) ==
  IF k = 0 THEN dir0 ELSE Exec(DirAfter(dir0, envs, k - 1), Answer(envs, k)).dir

\* The answers of the client to its first n calls.
MachineScript(dir0, envs, n) ==
  [k \in 1..n |-> Exec(DirAfter(dir0, envs, k - 1), Answer(envs, k)).ans]

\* vm-setup 273-276, 283-286: the commands of installOrgoPythonSDK.
SdkInstall == "pip3 install anthropic langchain-anthropic requests Pillow --break-system-packages"
SdkVerify == "python3 -c import anthropic; import PIL"

\* vm-setup 271-297: true whatever the commands gave.
installOrgoPythonSDK(script, trace) ==
  LET result == runCommand(script, trace, SdkInstall, DefaultRetries)
      verify == runCommand(script, result.trace, SdkVerify, DefaultRetries)
  IN  IF result.threw THEN result
      ELSE IF verify.threw THEN verify
      ELSE Return(TRUE, "",
                  IF ~verify.success
                    THEN Append(verify.trace, Notice("Install SDKs"))
                    ELSE verify.trace)

\* vm-setup 589-592: the command of storeClaudeKey.
StoreKeyCommand == "echo export ANTHROPIC_API_KEY >> ~/.bashrc"

\* vm-setup 588-594
storeClaudeKey(script, trace) ==
  LET result == runCommand(script, trace, StoreKeyCommand, DefaultRetries) IN
    IF result.threw
      THEN result
      ELSE Return(result.success, "", result.trace)

\* vm-setup 608-652: the steps of runFullSetup, by the step of the
\* ProgressEvent that announces each.
FullSetupSteps ==
  <<"python", "sdk", "ssh", "git", "clone", "browser-use", "sync", "claude",
    "ralph">>

FullSetupStep(step, script, trace) ==
  CASE step = "python" -> installPython(script, trace)
    [] step = "sdk" -> installOrgoPythonSDK(script, trace)
    [] step = "ssh" -> generateSSHKey(script, trace)
    [] step = "git" -> configureGit(script, trace)
    [] step = "clone" -> cloneVaultRepo(script, trace)
    [] step = "browser-use" -> installBrowserUse(script, trace)
    [] step = "sync" -> setupGitSync(script, trace)
    [] step = "claude" -> storeClaudeKey(script, trace)
    [] step = "ralph" -> setupRalphWiggum(script, trace)

\* The message of the Error runFullSetup throws when a step returns false.
FullSetupError(step) ==
  CASE step = "python" -> "Failed to install Python"
    [] step = "ssh" -> "Failed to generate SSH key"
    [] step = "git" -> "Failed to configure Git"
    [] step = "clone" -> "Failed to clone vault repository"
    [] step = "browser-use" -> "Failed to install browser-use"
    [] step = "sync" -> "Failed to set up Git sync"
    [] step = "claude" -> "Failed to store Claude API key"
    [] step = "ralph" -> "Failed to set up Samantha Task Executor"
    [] OTHER -> ""

\* vm-setup 608-654: the try block of runFullSetup from step k on; a step
\* other than the SDKs that returns false makes it throw.
RECURSIVE runFullSetupFrom(_, _, _)
RECURSIVE runFullSetupThen(_, _, _)

\* Faulty variant of runFullSetupThen: a vault that could not be cloned is
\* passed over as the SDKs are.
runFullSetupThenWithoutVault(script, result, k) ==
  IF result.threw
    THEN result
  ELSE IF ~result.success /\ FullSetupSteps[k] \notin {"sdk", "clone"}
    THEN [Throw(result.trace) EXCEPT !.output = FullSetupError(FullSetupSteps[k])]
    ELSE runFullSetupFrom(script, result.trace, k + 1)

\* vm-setup 611, 616, 621, ..., 652: what follows step k, given its result.
runFullSetupThen(script, result, k) ==
  IF result.threw
    THEN result
  ELSE IF ~result.success /\ FullSetupSteps[k] # "sdk"
    THEN [Throw(result.trace) EXCEPT !.output = FullSetupError(FullSetupSteps[k])]
    ELSE runFullSetupFrom(script, result.trace, k + 1)

runFullSetupFrom(script, trace, k) ==
  IF k <= Len(FullSetupSteps)
    THEN runFullSetupThen(script,
                          FullSetupStep(FullSetupSteps[k], script,
                                        Append(trace, Notice(FullSetupSteps[k]))),
                          k)
    ELSE Return(TRUE, "", trace)

\* vm-setup 599-659: what the try block throws is caught and returned as
\* { success: false, error } (error is the output of the result).
runFullSetup(script, trace) ==
  LET body == runFullSetupFrom(script, trace, 1) IN
    IF body.threw
      THEN Return(FALSE, IF body.output = "" THEN "Unknown error" ELSE body.output,
                  body.trace)
      ELSE body

\* What a machine on which everything works answers to a command: exit code
\* 0, with the sentinel of the browser-use installation, with the head of
\* the daemon script, or with some other output.
HealthyAnswer(command) ==
  CASE command = BrowserCheck -> Result(0, "DONE\n")
    [] command = RalphVerify -> Result(0, "# Ralph Wiggum")
    [] OTHER -> Result(0, "output")

\* The script runFullSetup meets on a machine that answers a to the calls
\* n + 1 .. n + len and as a healthy machine to the others: the answer to
\* a call is that of the command runFullSetup issues there, the calls
\* before it having been answered as script s says.
RECURSIVE FaultyScript(_, _, _, _)

FaultyScriptThen(s, calls, n, len, a) ==
  IF Len(calls) <= Len(s)
    THEN s
    ELSE FaultyScript(Append(s, IF Len(s) + 1 \in (n + 1)..(n + len)
                                  THEN a
                                  ELSE HealthyAnswer(calls[Len(s) + 1].cmd)),
                      n, len, a)

FaultyScript(s, n, len, a) ==
  FaultyScriptThen(s,
                   BashCalls(runFullSetup(Append(s, Result(0, "output")),
                                          <<>>).trace),
                   n, len, a)

\* ------------------------------------------- the machine-creation loop
\* start/route.ts 136-188 on its own, against a provider whose answers are
\* given attempt by attempt.  The machines all bear the one name the run has
\* generated (line 136).

\* new Promise(resolve => setTimeout(resolve, 5000)) before the listing, and
\* the 3000 ms before the next attempt.
ListDelayMs == 5000
CreateDelayMs == 3000

\* Messages of the errors createComputer raises.
CreateMessages ==
  {"Request timed out", "connect ETIMEDOUT", "Failed to create computer"}

\* When the machine of a createComputer call that raised comes to exist at
\* the provider: never, before the listing that follows the call, after it
\* and before the next attempt, or after the run has left the loop.
Appears == {"never", "before_listing", "before_next_attempt", "after_loop"}

\* What one createComputer call does: it returns the machine, or raises.
CreateReturned == [kind |-> "returned", message |-> "", appears |-> "before_listing"]
CreateRaised(message, appears) ==
  [kind |-> "raised", message |-> message, appears |-> appears]

CreateAnswers ==
  {CreateReturned}
    \cup {CreateRaised(m, w) : m \in CreateMessages, w \in Appears}

\* What one listComputers call does: it returns the machines that exist, or
\* raises.
ListAnswers == {"listed", "raised"}

\* How the provider answers the attempts of one run: attempt k gets
\* env[k].create, and its listing, if it makes one, env[k].list.
CreateEnvs ==
  [1..CreateRetries -> [create : CreateAnswers, list : ListAnswers]]

\* The events of the loop's trace: a createComputer call with its answer, a
\* listComputers call with its answer and whether the machine was found.
CreateCall(a) ==
  [ev |-> "create", cmd |-> "", ans |-> a, ms |-> 0, ok |-> a.kind = "returned"]
ListCall(l, found) ==
  [ev |-> "list", cmd |-> "", ans |-> l, ms |-> 0, ok |-> found]

CreateCalls(trace) == SelectSeq(trace, LAMBDA e : e.ev = "create")

\* What the loop and the lines after it give: the machine (computer), the
\* id written by line 185 (recorded), or the error thrown by line 181; and
\* the number of machines the provider has made, or will make, for the run.
Loop(computer, error, trace, made) ==
  [computer |-> computer, recorded |-> NULL, threw |-> FALSE,
   error |-> error, trace |-> trace, made |-> made]

\* lines 143-178: the while loop.  visible is the number of machines of the
\* run's name the provider lists now, made those it has made or will make.
RECURSIVE createComputerLoop(_, _, _, _, _, _, _)
createComputerLoop(r, env, trace, retries, lastError, visible, made) ==
  IF retries > 0
    THEN
      LET a == Answer(env, Len(CreateCalls(trace)) + 1)
          called == Append(trace, CreateCall(a.create))
          message == a.create.message
          made1 == made + (IF a.create.appears # "never" THEN 1 ELSE 0)
          listing ==
            \/ Includes(message, "timed out")
            \/ Includes(message, "ETIMEDOUT")
          seen == visible + (IF a.create.appears = "before_listing" THEN 1 ELSE 0)
          found == listing /\ a.list = "listed" /\ seen > 0
          checked ==
            IF listing
              THEN called \o <<Sleep(ListDelayMs), ListCall(a.list, found)>>
              ELSE called
          later ==
            visible + (IF a.create.appears \in {"before_listing", "before_next_attempt"}
                         THEN 1 ELSE 0)
      IN  IF a.create.kind = "returned"
            THEN Loop(RunComputer(r), lastError, called, made1)
          ELSE IF found
            THEN Loop(RunComputer(r), message, checked, made1)
            ELSE createComputerLoop(r, env,
                                    IF retries - 1 > 0
                                      THEN Append(checked, Sleep(CreateDelayMs))
                                      ELSE checked,
                                    retries - 1, message, later, made1)
    ELSE Loop(NULL, lastError, trace, made)

\* Faulty variant of createComputers: the loop is given one attempt more.
createComputersOneAttemptMore(r, env) ==
  createComputerLoop(r, env, <<>>, CreateRetries + 1, NULL, 0, 0)

\* lines 139-141: computer, retries = 3 and lastError = null, then the loop.
createComputers(r, env) ==
  createComputerLoop(r, env, <<>>, CreateRetries, NULL, 0, 0)

\* lines 136-188: the loop, then the throw of lastError when it gave no
\* machine, or the write of the machine's id.
obtainComputer(r, env) ==
  LET loop == createComputers(r, env) IN
    IF loop.computer = NULL
      THEN [loop EXCEPT
              !.threw = TRUE,
              !.error = IF @ = NULL
                          THEN "Failed to create computer after retries"
                          ELSE @]
      ELSE [loop EXCEPT !.recorded = loop.computer]

\* ----------------------------------- the deploy key and the vault clone
\* start/route.ts 265-291 on its own: the run has its machine and its vault
\* repository (vaultRepoName, vaultSshUrl), the machine answers the commands
\* from a script, and createDeployKey answers deployKey.

\* line 212, and repo.ssh_url (github.ts 104).
SshUrl(name) == "git@github.com:u/" \o name \o ".git"

\* What githubClient.createDeployKey does: the key is registered, or it raises.
DeployKeyAnswers == {"created", "raised"}

\* The events of the trace other than those of the Step Library: the call of
\* createDeployKey, and updateStatus.
DeployKeyCall(repo, key, a) ==
  [ev |-> "deployKey", repo |-> repo, key |-> key, ok |-> a = "created"]
UpdateStatusCall(flag) == [ev |-> "updateStatus", flag |-> flag]

\* How lines 265-291 end: with an error thrown into the catch of
\* runSetupProcess, or not; url is the URL handed to cloneVaultRepo.
Chain(threw, error, url, trace) ==
  [threw |-> threw, error |-> error, url |-> url, trace |-> trace]

\* lines 288-291, cloneSuccess being known.
vaultCloned(cloneSuccess, vaultSshUrl) ==
  IF cloneSuccess.threw
    THEN Chain(TRUE, cloneSuccess.output, vaultSshUrl, cloneSuccess.trace)
  ELSE IF ~cloneSuccess.success
    THEN Chain(TRUE, "Failed to clone vault repository to VM", vaultSshUrl,
               cloneSuccess.trace)
    ELSE Chain(FALSE, NULL, vaultSshUrl,
               Append(cloneSuccess.trace, UpdateStatusCall("repoCloned")))

\* lines 281-287, configureGit having ended: its result is dropped.
gitConfigured(script, configured, vaultSshUrl) ==
  IF configured.threw
    THEN Chain(TRUE, configured.output, NULL, configured.trace)
  ELSE IF vaultSshUrl = NULL
    THEN Chain(TRUE, "Failed to get vault SSH URL", NULL, configured.trace)
    ELSE vaultCloned(cloneVaultRepo(script, configured.trace), vaultSshUrl)

\* Faulty variant of keyGenerated: an empty public key is let through.
keyGeneratedUnchecked(script, ssh, vaultRepoName, vaultSshUrl, deployKey) ==
  IF ssh.threw
    THEN Chain(TRUE, ssh.output, NULL, ssh.trace)
  ELSE IF vaultRepoName = NULL
    THEN Chain(TRUE, "Vault repository name is not set", NULL, ssh.trace)
  ELSE IF deployKey = "raised"
    THEN Chain(TRUE, "github error", NULL,
               Append(ssh.trace, DeployKeyCall(vaultRepoName, ssh.output, deployKey)))
    ELSE gitConfigured(script,
                       configureGit(script,
                                    Append(ssh.trace,
                                           DeployKeyCall(vaultRepoName, ssh.output,
                                                         deployKey))),
                       vaultSshUrl)

\* lines 268-281, generateSSHKey having ended with ssh = { publicKey, success }.
keyGenerated(script, ssh, vaultRepoName, vaultSshUrl, deployKey) ==
  IF ssh.threw
    THEN Chain(TRUE, ssh.output, NULL, ssh.trace)
  ELSE IF ~ssh.success \/ ssh.output = ""
    THEN Chain(TRUE, "Failed to generate SSH key on VM", NULL, ssh.trace)
  ELSE IF vaultRepoName = NULL
    THEN Chain(TRUE, "Vault repository name is not set", NULL, ssh.trace)
  ELSE IF deployKey = "raised"
    THEN Chain(TRUE, "github error", NULL,
               Append(ssh.trace, DeployKeyCall(vaultRepoName, ssh.output, deployKey)))
    ELSE gitConfigured(script,
                       configureGit(script,
                                    Append(ssh.trace,
                                           DeployKeyCall(vaultRepoName, ssh.output,
                                                         deployKey))),
                       vaultSshUrl)

\* lines 265-291
cloneWithDeployKey(script, vaultRepoName, vaultSshUrl, deployKey) ==
  keyGenerated(script, generateSSHKey(script, <<>>), vaultRepoName, vaultSshUrl,
               deployKey)

\* No Step Library action is being run.  (dir0, dir, once, envs and calls
\* are those of the cloneVaultRepo invocations made in a row: ~/vault at the
\* start, now and after the first invocation, how each client call goes, and
\* the number of invocations made.)
NoCall ==
  [fn |-> "none", script |-> <<>>, param |-> 0, done |-> TRUE,
   result |-> Return(FALSE, "", <<>>),
   dir0 |-> {}, dir |-> {}, once |-> {}, envs |-> <<>>, calls |-> 0]

\* ------------------------------------------------------------ run locals
NewLocals ==
  [found |-> FALSE,          \* POST: findUnique returned a row
   snapRepo |-> NULL,        \* setupState.vaultRepoName as read at line 106
   computer |-> NULL,        \* computer
   retries |-> CreateRetries,\* retries
   lastError |-> NULL,       \* lastError
   allTimedOut |-> TRUE,     \* every createComputer so far timed out, no listing found it
   vaultRepoName |-> NULL,   \* vaultRepoName
   repoExists |-> FALSE,     \* repoExists answered that the recorded repository exists
   createCalls |-> 0,        \* createVaultRepo calls made
   ret |-> TRUE,             \* what the latest Step Library call returned
   vmDown |-> FALSE,         \* the machine is torn down: every command on it fails
   readyTimeout |-> FALSE,   \* installPython failed at its readiness gate
   deferred |-> "none",      \* how clonePendingGitHubRepositories went
   error |-> NULL]           \* the error caught at line 319

\* The GitHub signIn callback (auth/[...nextauth]/route.ts 46-107) has run
\* before any request of the user: it got or created the row and created a
\* vault, recording it with repoCreated; every error in it is caught, which
\* leaves no row, or a row that records no vault.
SignedIn ==
  {NoRow, NewRow,
   Merge(NewRow, [vaultRepoName |-> SignInRepo,
                  vaultRepoUrl |-> RepoUrl(SignInRepo),
                  repoCreated |-> TRUE])}

Init ==
  /\ db \in SignedIn
  /\ pc = [r \in Runs |-> "idle"]
  /\ loc = [r \in Runs |-> NewLocals]
  /\ clean = TRUE
  /\ lib = NoCall

\* ------------------------------------------- the calls between two accesses
\* A run between two accesses of the row is st = [pc, loc, clean]: its label,
\* its locals, and whether every call has succeeded so far.  Each call below
\* gives the set of states its possible answers lead to.

Go(st, l) == [st EXCEPT !.pc = l]

\* A call failed: the scenario is no longer the all-succeeding one.
Dirty(st) == [st EXCEPT !.clean = FALSE]

\* line 323: error instanceof Error ? error.message : 'Unknown error
\* occurred'.  It is a text whatever was thrown; of the text only whether it
\* is that of a timeout is kept.
Message(error) == IF error = "timed out" THEN error ELSE "message"

\* A throw inside the try block of runSetupProcess: control goes to the catch
\* (line 319) with the error.  The catch reads no other local.
Thrown(st, error) ==
  [pc |-> "catch",
   loc |-> [NewLocals EXCEPT !.error = Message(error),
                             !.allTimedOut = st.loc.allTimedOut,
                             !.ret = st.loc.ret,
                             !.readyTimeout = st.loc.readyTimeout],
   clean |-> FALSE]

\* A Step Library call returned res.
Returned(st, res) ==
  [st EXCEPT !.loc.ret = res, !.clean = @ /\ res]

\* The commands of a Step Library call have run on the machine.  The machine
\* may be torn down from outside at any moment; from then on every command
\* fails, and with it every Step Library action (vm-setup 30-70: runCommand
\* reports success = false; each action returns false on its first failed
\* command).
Ran(st) ==
  IF st.loc.vmDown
    THEN {Returned(st, FALSE)}
    ELSE {Returned(st, TRUE), Returned(st, FALSE),
          Returned([st EXCEPT !.loc.vmDown = TRUE], FALSE)}

\* lines 111-121: the GitHub account (and the user row), then the clients.
FindAccount(st) ==
  {Go(st, "L125"),
   Thrown(st, "GitHub account not connected"),
   Thrown(st, "database error")}

\* lines 128-132
ListProjects(st) ==
  {Go(st, "L134"),
   Thrown(st, "Project not found"),
   Thrown(st, "orgo error")}

\* lines 150 and 165-166: the loop is left with a machine; retries and
\* lastError are not read again.
Obtained(r, st) ==
  [st EXCEPT !.pc = "L184",
             !.loc.computer = RunComputer(r),
             !.loc.allTimedOut = FALSE,
             !.loc.retries = CreateRetries,
             !.loc.lastError = NULL]

\* lines 173-182: an attempt of the creation loop has failed with lastError.
AttemptFailed(st) ==
  LET m == [st EXCEPT !.loc.retries = @ - 1] IN
    IF m.loc.retries > 0 THEN Go(m, "L145") ELSE Thrown(m, m.loc.lastError)

\* lines 143-156: one createComputer call of the retry loop.
CreateComputer(r, st) ==
  {Obtained(r, st),
   Dirty([st EXCEPT !.pc = "L161", !.loc.lastError = "timed out"]),
   AttemptFailed(Dirty([st EXCEPT !.loc.lastError = "create failed",
                                  !.loc.allTimedOut = FALSE]))}

\* lines 158-171: after a timeout, look the machine up by name; an error of
\* the listing is caught and counts as not found.
ListComputers(r, st) ==
  {Obtained(r, st), AttemptFailed(st)}

\* lines 197-202: getUser, then the choice between reuse and creation.
GetUser(st) ==
  {Go(st, IF st.loc.snapRepo # NULL THEN "L207" ELSE "L229"),
   Thrown(st, "github error")}

\* Faulty variant of RepoExists: the answer that the recorded repository
\* exists does not short-circuit the creation.
RepoExistsNotShortCircuiting(st) ==
  {[st EXCEPT !.pc = "L229", !.loc.repoExists = TRUE],
   Dirty(Go(st, "L229")),
   Thrown(st, "github error")}

\* lines 207-222: GitHubClient.repoExists on the recorded repository
\* (github.ts 177-189: true, false on 404, any other error is rethrown).
RepoExists(st) ==
  {[st EXCEPT !.pc = "L214", !.loc.repoExists = TRUE,
              !.loc.vaultRepoName = st.loc.snapRepo],
   Dirty(Go(st, "L229")),
   Thrown(st, "github error")}

\* lines 231-234
CreateVaultRepo(r, st) ==
  LET called == [st EXCEPT !.loc.createCalls = @ + 1] IN
    {[called EXCEPT !.pc = "L236", !.loc.vaultRepoName = RunRepo(r)],
     Thrown(called, "github error")}

\* What the machine answers to the commands of installPython: every command
\* succeeds, every command fails (the machine never answers the readiness
\* poll), or the poll succeeds and the package manager fails.
InstallPythonScripts ==
  {<<Result(0, "output")>>, <<Result(1, "output")>>,
   <<Result(0, "output"), Result(1, "output")>>}

\* lines 253-256: installPython (vm-setup 225-265) returns what its commands
\* make it return; on a machine that is down every command fails.
InstallPython(st) ==
  UNION
    {{IF t.loc.ret
        THEN Go(t, "L260")
        ELSE Thrown([t EXCEPT !.loc.readyTimeout =
                       ~waitForVMReady(s, <<>>, ReadyPolls, ReadyDelayMs).success],
                    "Failed to install Python and essential tools on VM")
      : s \in {s \in InstallPythonScripts :
                /\ installPython(s, <<>>).success = t.loc.ret
                /\ st.loc.vmDown => \A k \in DOMAIN s : s[k].exit_code # 0}}
     : t \in Ran(st)}

\* lines 260-263: installOrgoPythonSDK returns true whatever happened
\* (vm-setup 271-297).
InstallOrgoPythonSDK(st) ==
  {Go(Returned(t, TRUE), "L267") : t \in Ran(st)}

\* lines 267-275
GenerateSSHKey(st) ==
  {IF t.loc.ret
     THEN Go(t, "L278")
     ELSE Thrown(t, "Failed to generate SSH key on VM")
   : t \in Ran(st)}

\* line 278
CreateDeployKey(st) ==
  {Go(st, "L281"), Thrown(st, "github error")}

\* lines 281-285: the result of configureGit is dropped.
ConfigureGit(st) ==
  {Go(t, "L287") : t \in Ran(st)}

\* lines 287-290
CloneVaultRepo(st) ==
  {IF t.loc.ret
     THEN Go(t, "L291")
     ELSE Thrown(t, "Failed to clone vault repository to VM")
   : t \in Ran(st)}

\* lines 294-297: a false result is only warned about.
InstallBrowserUse(st) ==
  {Go(t, "L298") : t \in Ran(st)}

\* line 301: the result of setupGitSync is dropped.
SetupGitSync(st) ==
  {Go(t, "L302") : t \in Ran(st)}

\* line 305: the result of storeClaudeKey is dropped.
StoreClaudeKey(st) ==
  {Go(t, "L309") : t \in Ran(st)}

\* line 309: the result of setupRalphWiggum is dropped.
SetupRalphWiggum(st) ==
  {Go(t, "L310") : t \in Ran(st)}

\* How clonePendingGitHubRepositories ends: it returns early (no integration,
\* none pending, 349-351, or no repository, 365-367), the metadata does not
\* parse (360-363), an exception is caught (437-440: of the integration
\* lookup, of cloneRepositories, of writeFileToVault or of the integration
\* update), or cloneRepositories has run, with errors for some repositories
\* or none (432-436).
Deferred == {"skipped", "parse_error", "thrown", "clone_errors", "cloned"}

\* Faulty variant of ClonePending: a failure in the deferred clones is thrown
\* to runSetupProcess.
ClonePendingRethrowing(st) ==
  {Go([st EXCEPT !.loc.deferred = "skipped"], "L316"),
   Thrown(st, "Unexpected token"),
   Thrown(st, "github error")}
    \cup {IF t.loc.ret
            THEN Go([t EXCEPT !.loc.ret = st.loc.ret, !.loc.deferred = "cloned"],
                    "L316")
            ELSE Thrown(t, "clone failed")
          : t \in Ran(st)}

\* line 313: clonePendingGitHubRepositories (331-441) catches everything and
\* returns nothing, so that what the latest Step Library call returned stays.
ClonePending(st) ==
  {Go([st EXCEPT !.loc.deferred = "skipped"], "L316"),
   Go(Dirty([st EXCEPT !.loc.deferred = "parse_error"]), "L316"),
   Go(Dirty([st EXCEPT !.loc.deferred = "thrown"]), "L316")}
    \cup {Go([t EXCEPT !.loc.ret = st.loc.ret,
                       !.loc.deferred = IF t.loc.ret THEN "cloned"
                                                     ELSE "clone_errors"],
             "L316")
          : t \in Ran(st)}

\* The call a run standing at a label makes.
Call(r, st) ==
  CASE st.pc = "L111" -> FindAccount(st)
    [] st.pc = "L128" -> ListProjects(st)
    [] st.pc = "L145" -> CreateComputer(r, st)
    [] st.pc = "L161" -> ListComputers(r, st)
    [] st.pc = "L197" -> GetUser(st)
    [] st.pc = "L207" -> RepoExists(st)
    [] st.pc = "L231" -> CreateVaultRepo(r, st)
    [] st.pc = "L253" -> InstallPython(st)
    [] st.pc = "L260" -> InstallOrgoPythonSDK(st)
    [] st.pc = "L267" -> GenerateSSHKey(st)
    [] st.pc = "L278" -> CreateDeployKey(st)
    [] st.pc = "L281" -> ConfigureGit(st)
    [] st.pc = "L287" -> CloneVaultRepo(st)
    [] st.pc = "L294" -> InstallBrowserUse(st)
    [] st.pc = "L301" -> SetupGitSync(st)
    [] st.pc = "L305" -> StoreClaudeKey(st)
    [] st.pc = "L309" -> SetupRalphWiggum(st)
    [] st.pc = "L313" -> ClonePending(st)

\* The labels at which a run is about to make such a call.
CallLabels ==
  {"L111", "L128", "L145", "L161", "L197", "L207", "L231", "L253", "L260",
   "L267", "L278", "L281", "L287", "L294", "L301", "L305", "L309", "L313"}

\* The states in which the run next accesses the row.
RECURSIVE Settle(_, _)
Settle(r, st) ==
  IF st.pc \in CallLabels
    THEN UNION {Settle(r, t) : t \in Call(r, st)}
    ELSE {st}

\* Run r goes on from st up to its next access of the row.
Resume(r, st) ==
  \E t \in Settle(r, st) :
    /\ pc' = [pc EXCEPT ![r] = t.pc]
    /\ loc' = [loc EXCEPT ![r] = t.loc]
    /\ clean' = t.clean

\* The request or run is over: its locals are gone.
Finish(r, l) ==
  /\ pc' = [pc EXCEPT ![r] = l]
  /\ loc' = [loc EXCEPT ![r] = NewLocals]

Here(r) == [pc |-> pc[r], loc |-> loc[r], clean |-> clean]

\* updateStatus(data) at label `from`, then on from label `to`; the database
\* may reject the write, which throws into the catch.
UpdateStatus(r, from, data, to) ==
  /\ pc[r] = from
  /\ \E dbOk \in BOOLEAN :
       IF dbOk
         THEN db' = Merge(db, data) /\ Resume(r, Go(Here(r), to))
         ELSE UNCHANGED db /\ Resume(r, Thrown(Here(r), "database error"))

\* ------------------------------------------------- POST /api/setup/start
\* lines 14-35: session, body and environment checks, then the read of the
\* user's row.  Requests are numbered in arrival order.
StartFind(r) ==
  /\ pc[r] = "idle"
  /\ IF r = 1 THEN TRUE ELSE pc[r - 1] # "idle"
  /\ UNCHANGED db
  /\ \E req \in {"ok", "unauthorized", "no_claude_key", "no_orgo_key", "db_error"} :
       /\ IF req = "ok"
            THEN /\ pc' = [pc EXCEPT ![r] = "post_write"]
                 /\ loc' = [loc EXCEPT ![r].found = db.exists]
            ELSE Finish(r, "http_error")
       /\ clean' = (clean /\ r = 1 /\ req = "ok")

\* Faulty variant of RestartData: the restart leaves the earlier failure's
\* message in place.
RestartDataKeepingMessage ==
  [claudeApiKey |-> "sk-x",
   status |-> "provisioning",
   vmCreated |-> FALSE, repoCreated |-> FALSE, repoCloned |-> FALSE,
   browserUseInstalled |-> FALSE, gitSyncConfigured |-> FALSE,
   ralphWiggumSetup |-> FALSE]

\* The fields start writes on a row it found (lines 49-59).
RestartData ==
  [claudeApiKey |-> "sk-x",
   status |-> "provisioning",
   errorMessage |-> NULL,
   vmCreated |-> FALSE, repoCreated |-> FALSE, repoCloned |-> FALSE,
   browserUseInstalled |-> FALSE, gitSyncConfigured |-> FALSE,
   ralphWiggumSetup |-> FALSE]

\* lines 37-64: create (no row was found) or update, then the detached call
\* of runSetupProcess, which runs up to its first await (line 106).
StartWrite(r) ==
  /\ pc[r] = "post_write"
  /\ \E dbOk \in BOOLEAN :
       IF dbOk /\ (loc[r].found \/ ~db.exists)
         THEN /\ db' = IF loc[r].found
                         THEN Merge(db, RestartData)
                         ELSE [NewRow EXCEPT !.claudeApiKey = "sk-x",
                                             !.status = "provisioning"]
              /\ pc' = [pc EXCEPT ![r] = "L106"]
              /\ UNCHANGED <<loc, clean>>
         ELSE \* the write threw (or create hit the unique userId): 500, no run
              /\ UNCHANGED db
              /\ Finish(r, "http_error")
              /\ clean' = FALSE

\* ------------------------------------------------------ runSetupProcess
\* line 106: the run's one read of the row; it keeps the recorded repository.
FindSetupState(r) ==
  /\ pc[r] = "L106"
  /\ UNCHANGED db
  /\ \E dbOk \in BOOLEAN :
       IF dbOk
         THEN Resume(r, [Here(r) EXCEPT
                           !.pc = "L111",
                           !.loc.snapRepo =
                              IF db.vaultRepoName # NULL /\ db.vaultRepoUrl # NULL
                                THEN db.vaultRepoName ELSE NULL])
         ELSE Resume(r, Thrown(Here(r), "database error"))

\* line 125
UpdateProvisioning(r) ==
  UpdateStatus(r, "L125", [status |-> "provisioning"], "L128")

\* line 134
UpdateProjectId(r) ==
  UpdateStatus(r, "L134", [orgoProjectId |-> "project-1"], "L145")

\* lines 184-188
UpdateComputer(r) ==
  UpdateStatus(r, "L184",
               [orgoComputerId |-> loc[r].computer,
                orgoComputerUrl |-> ComputerUrl(loc[r].computer),
                vmStatus |-> "creating"], "L194")

\* lines 192-194
UpdateVmCreated(r) ==
  UpdateStatus(r, "L194", [vmCreated |-> TRUE, vmStatus |-> "running"], "L197")

\* lines 214-218
UpdateRepoReused(r) ==
  UpdateStatus(r, "L214",
               [repoCreated |-> TRUE,
                vaultRepoName |-> loc[r].vaultRepoName,
                vaultRepoUrl |-> RepoUrl(loc[r].vaultRepoName)], "L245")

\* Faulty variant of UpdateCreatingRepo: the status is left as it is before
\* the repository is created.
UpdateCreatingRepoUnannounced(r) ==
  UpdateStatus(r, "L229", [repoCreated |-> FALSE], "L231")

\* lines 226-229
UpdateCreatingRepo(r) ==
  UpdateStatus(r, "L229", [status |-> "creating_repo"], "L231")

\* lines 236-240
UpdateRepoCreated(r) ==
  UpdateStatus(r, "L236",
               [repoCreated |-> TRUE,
                vaultRepoName |-> loc[r].vaultRepoName,
                vaultRepoUrl |-> RepoUrl(loc[r].vaultRepoName)], "L245")

\* Faulty variant of UpdateConfiguringVm: the status written before the VM is
\* configured is 'provisioning' again.
UpdateConfiguringVmAsProvisioning(r) ==
  UpdateStatus(r, "L245", [status |-> "provisioning"], "L253")

\* line 245
UpdateConfiguringVm(r) ==
  UpdateStatus(r, "L245", [status |-> "configuring_vm"], "L253")

\* line 291
UpdateRepoCloned(r) ==
  UpdateStatus(r, "L291", [repoCloned |-> TRUE], "L294")

\* line 298
UpdateBrowserUseInstalled(r) ==
  UpdateStatus(r, "L298", [browserUseInstalled |-> TRUE], "L301")

\* line 302
UpdateGitSyncConfigured(r) ==
  UpdateStatus(r, "L302", [gitSyncConfigured |-> TRUE], "L305")

\* line 310
UpdateRalphWiggumSetup(r) ==
  UpdateStatus(r, "L310", [ralphWiggumSetup |-> TRUE], "L313")

\* lines 316-317: the last write of the try block; the run is then over.
UpdateReady(r) ==
  /\ pc[r] = "L316"
  /\ \E dbOk \in BOOLEAN :
       IF dbOk
         THEN /\ db' = Merge(db, [status |-> "ready"])
              /\ Finish(r, "done")
              /\ UNCHANGED clean
         ELSE /\ UNCHANGED db
              /\ Resume(r, Thrown(Here(r), "database error"))

\* Faulty variant of CatchError: the status is persisted without the message.
CatchErrorWithoutMessage(r) ==
  /\ pc[r] = "catch"
  /\ UNCHANGED clean
  /\ \E dbOk \in BOOLEAN :
       IF dbOk
         THEN /\ db' = Merge(db, [status |-> "failed"])
              /\ Finish(r, "done")
         ELSE /\ UNCHANGED db
              /\ Finish(r, "rejected")

\* Faulty variant of CatchError: a failed run also takes back the flag of the
\* machine it created.
CatchErrorClearingFlag(r) ==
  /\ pc[r] = "catch"
  /\ UNCHANGED clean
  /\ \E dbOk \in BOOLEAN :
       IF dbOk
         THEN /\ db' = Merge(db, [status |-> "failed",
                                  errorMessage |-> loc[r].error,
                                  vmCreated |-> FALSE])
              /\ Finish(r, "done")
         ELSE /\ UNCHANGED db
              /\ Finish(r, "rejected")

\* lines 319-325: the catch; a write that throws here rejects the promise,
\* which the caller only logs (line 64).
CatchError(r) ==
  /\ pc[r] = "catch"
  /\ UNCHANGED clean
  /\ \E dbOk \in BOOLEAN :
       IF dbOk
         THEN /\ db' = Merge(db, [status |-> "failed",
                                  errorMessage |-> loc[r].error])
              /\ Finish(r, "done")
         ELSE /\ UNCHANGED db
              /\ Finish(r, "rejected")

\* ------------------------------------- POST delete computer (the reset)
\* Faulty variant of ResetData: the reset also forgets the vault repository.
ResetDataClearingRepo ==
  [status |-> "pending",
   orgoProjectId |-> NULL, orgoComputerId |-> NULL, orgoComputerUrl |-> NULL,
   vmStatus |-> NULL,
   vmCreated |-> FALSE, repoCreated |-> FALSE, repoCloned |-> FALSE,
   browserUseInstalled |-> FALSE, gitSyncConfigured |-> FALSE,
   ralphWiggumSetup |-> FALSE,
   errorMessage |-> NULL,
   vaultRepoName |-> NULL, vaultRepoUrl |-> NULL]

\* The fields the reset writes (status/route.ts 118-134).
ResetData ==
  [status |-> "pending",
   orgoProjectId |-> NULL, orgoComputerId |-> NULL, orgoComputerUrl |-> NULL,
   vmStatus |-> NULL,
   vmCreated |-> FALSE, repoCreated |-> FALSE, repoCloned |-> FALSE,
   browserUseInstalled |-> FALSE, gitSyncConfigured |-> FALSE,
   ralphWiggumSetup |-> FALSE,
   errorMessage |-> NULL]

\* status/route.ts 99-115: deleteComputer; whatever it throws is swallowed.
DeleteComputer == {"deleted", "not_found", "orgo_error"}

\* Faulty variant of ResetRow: an error of deleteComputer other than not-found
\* ends the request, the row is not reset.
ResetRowUnlessDeleteFailed(row, del) ==
  IF del = "orgo_error" THEN row ELSE Merge(row, ResetData)

\* status/route.ts 99-134: the row the request writes, deleteComputer having
\* answered del: the catch of lines 103-115 only logs, the update follows.
ResetRow(row, del) == Merge(row, ResetData)

\* What a reset request may meet: no session, a read of the row that
\* throws, no ORGO_API_KEY in the environment, or none of these.
ResetRequests == {"ok", "unauthorized", "no_orgo_key", "db_error"}

\* orgoClient.deleteComputer(id), line 101
DeleteComputerCall(id) == [ev |-> "deleteComputer", id |-> id]

\* The answer of the request: the HTTP status of the response, the calls
\* made to the provider, and the row as the request leaves it.
Response(status, calls, row) == [status |-> status, calls |-> calls, row |-> row]

\* Faulty variant of resetSetup: a record without a machine is reset as well.
resetSetupWithoutMachine(req, row, del, dbOk) ==
  IF req = "unauthorized"
    THEN Response(401, <<>>, row)
  ELSE IF req = "db_error"
    THEN Response(500, <<>>, row)
  ELSE IF req = "no_orgo_key"
    THEN Response(500, <<>>, row)
  ELSE IF ~row.exists
    THEN Response(404, <<>>, row)
  ELSE IF row.orgoComputerId = NULL
    THEN IF dbOk
           THEN Response(200, <<>>, ResetRow(row, del))
           ELSE Response(500, <<>>, row)
  ELSE IF dbOk
    THEN Response(200, <<DeleteComputerCall(row.orgoComputerId)>>,
                  ResetRow(row, del))
    ELSE Response(500, <<DeleteComputerCall(row.orgoComputerId)>>, row)

\* status/route.ts 74-148: session (401), the read of the row (500 when it
\* throws, 404 when there is no row or the row records no machine), the
\* environment key (500), deleteComputer answering del, then the reset of
\* the row (500 when the database rejects it, else 200).
resetSetup(req, row, del, dbOk) ==
  IF req = "unauthorized"
    THEN Response(401, <<>>, row)
  ELSE IF req = "db_error"
    THEN Response(500, <<>>, row)
  ELSE IF ~row.exists \/ row.orgoComputerId = NULL
    THEN Response(404, <<>>, row)
  ELSE IF req = "no_orgo_key"
    THEN Response(500, <<>>, row)
  ELSE IF dbOk
    THEN Response(200, <<DeleteComputerCall(row.orgoComputerId)>>,
                  ResetRow(row, del))
    ELSE Response(500, <<DeleteComputerCall(row.orgoComputerId)>>, row)

\* status/route.ts 74-148.  Between the read and the write only another
\* reset could clear the machine id the read has seen, and what is written
\* does not depend on what was read: the request is taken at its write.
Reset ==
  /\ UNCHANGED <<pc, loc>>
  /\ \E req \in ResetRequests, del \in DeleteComputer, dbOk \in BOOLEAN :
       /\ db' = resetSetup(req, db, del, dbOk).row
       /\ clean' = IF resetSetup(req, db, del, dbOk).calls # <<>>
                     THEN FALSE ELSE clean

\* ---------------------------------------------------------------- Next
RunStep(r) ==
  \/ StartFind(r)
  \/ StartWrite(r)
  \/ FindSetupState(r)
  \/ UpdateProvisioning(r)
  \/ UpdateProjectId(r)
  \/ UpdateComputer(r)
  \/ UpdateVmCreated(r)
  \/ UpdateRepoReused(r)
  \/ UpdateCreatingRepo(r)
  \/ UpdateRepoCreated(r)
  \/ UpdateConfiguringVm(r)
  \/ UpdateRepoCloned(r)
  \/ UpdateBrowserUseInstalled(r)
  \/ UpdateGitSyncConfigured(r)
  \/ UpdateRalphWiggumSetup(r)
  \/ UpdateReady(r)
  \/ CatchError(r)

Next ==
  /\ \/ \E r \in Runs : RunStep(r)
     \/ Reset
  /\ UNCHANGED lib

Spec == Init /\ [][Next]_vars

\* A request that was received is served, and a run that was launched goes
\* on: the event loop gives each of them its turn, every collaborator call
\* returning or raising.  Nothing obliges a user to send a request.
Served(r) == pc[r] # "idle" /\ RunStep(r) /\ UNCHANGED lib

SpecFair == Spec /\ \A r \in Runs : WF_vars(Served(r))

\* ------------------------------------------ the Step Library on its own
\* The actions that are run against every script of Scripts.
LibActions ==
  {"runCommand", "waitForVMReady", "installPython", "installOrgoPythonSDK",
   "generateSSHKey", "configureGit", "cloneRepositories", "installBrowserUse",
   "setupGitSync", "setupRalphWiggum", "storeClaudeKey", "runFullSetup"}

\* The Step Library actions are given every script and parameter of the
\* bounds; each is then run to its end.
LibInit ==
  /\ db = NoRow
  /\ pc = [r \in Runs |-> "idle"]
  /\ loc = [r \in Runs |-> NewLocals]
  /\ clean = TRUE
  /\ \/ \E script \in Scripts, param \in 0..MaxRetriesParam, fn \in LibActions :
          /\ fn \notin {"runCommand", "waitForVMReady", "cloneRepositories"}
               => param = 0
          /\ fn = "cloneRepositories" => param <= MaxRepos
          /\ lib = [NoCall EXCEPT !.fn = fn, !.script = script,
                                  !.param = param, !.done = FALSE]
     \/ \E dir0 \in VaultContents,
           envs \in UNION {[1..n -> Envs] : n \in 1..MaxEnvs} :
          lib = [NoCall EXCEPT
                   !.fn = "cloneVaultRepo",
                   !.script = MachineScript(dir0, envs,
                                            MaxClones * (DefaultRetries + 1)),
                   !.dir0 = dir0, !.dir = dir0, !.envs = envs,
                   !.done = FALSE]
     \/ \E n \in 0..MaxGood, len \in 1..MaxFaults,
           a \in StepAnswers \ {Result(0, "output")} :
          lib = [NoCall EXCEPT !.fn = "runFullSetup",
                               !.script = FaultyScript(<<>>, n, len, a),
                               !.done = FALSE]
     \/ \E script \in ScriptsOf(StepAnswers,
                               1 + Len(InstallPythonCommands) * InstallRetries) :
          lib = [NoCall EXCEPT !.fn = "installPython", !.script = script,
                               !.done = FALSE]
     \/ \E script \in ScriptsOf(StepAnswers, Len(ConfigureGitCommands)) :
          lib = [NoCall EXCEPT !.fn = "configureGit", !.script = script,
                               !.done = FALSE]
     \/ \E script \in ScriptsOf(StepAnswers, 4) :
          lib = [NoCall EXCEPT !.fn = "setupGitSync", !.script = script,
                               !.done = FALSE]
     \/ \E script \in ScriptsOf(RalphAnswers, 7) :
          lib = [NoCall EXCEPT !.fn = "setupRalphWiggum", !.script = script,
                               !.done = FALSE]
     \/ \E script \in ScriptsOf(StepAnswers, MaxRepos + 1), n \in 0..MaxRepos :
          lib = [NoCall EXCEPT !.fn = "cloneRepositories", !.script = script,
                               !.param = n, !.done = FALSE]
     \/ \E script \in ScriptsOf(BrowserAnswers, 5) :
          lib = [NoCall EXCEPT !.fn = "installBrowserUse", !.script = script,
                               !.done = FALSE]
     \/ \E script \in ScriptsOf(SshAnswers, 6) :
          lib = [NoCall EXCEPT !.fn = "generateSSHKey", !.script = script,
                               !.done = FALSE]

Finished(result) ==
  /\ lib' = [lib EXCEPT !.done = TRUE, !.result = result]
  /\ UNCHANGED <<db, pc, loc, clean>>

\* runCommand(command, step, retries = param)
RunCommandCall ==
  /\ lib.fn = "runCommand" /\ ~lib.done
  /\ Finished(runCommand(lib.script, <<>>, "command", lib.param))

\* waitForVMReady(maxRetries = param, delayMs)
WaitForVMReadyCall ==
  /\ lib.fn = "waitForVMReady" /\ ~lib.done
  /\ Finished(waitForVMReady(lib.script, <<>>, lib.param, ReadyDelayMs))

\* installPython()
InstallPythonCall ==
  /\ lib.fn = "installPython" /\ ~lib.done
  /\ Finished(installPython(lib.script, <<>>))

\* configureGit(username, email)
ConfigureGitCall ==
  /\ lib.fn = "configureGit" /\ ~lib.done
  /\ Finished(configureGit(lib.script, <<>>))

\* generateSSHKey()
GenerateSSHKeyCall ==
  /\ lib.fn = "generateSSHKey" /\ ~lib.done
  /\ Finished(generateSSHKey(lib.script, <<>>))

\* setupGitSync()
SetupGitSyncCall ==
  /\ lib.fn = "setupGitSync" /\ ~lib.done
  /\ Finished(setupGitSync(lib.script, <<>>))

\* setupRalphWiggum(claudeApiKey, orgoApiKey, computerId)
SetupRalphWiggumCall ==
  /\ lib.fn = "setupRalphWiggum" /\ ~lib.done
  /\ Finished(setupRalphWiggum(lib.script, <<>>))

\* cloneRepositories(repos), repos having param items
CloneRepositoriesCall ==
  /\ lib.fn = "cloneRepositories" /\ ~lib.done
  /\ Finished(cloneRepositories(lib.script, <<>>, Repos(lib.param)))

\* installBrowserUse()
InstallBrowserUseCall ==
  /\ lib.fn = "installBrowserUse" /\ ~lib.done
  /\ Finished(installBrowserUse(lib.script, <<>>))

\* installOrgoPythonSDK()
InstallOrgoPythonSDKCall ==
  /\ lib.fn = "installOrgoPythonSDK" /\ ~lib.done
  /\ Finished(installOrgoPythonSDK(lib.script, <<>>))

\* storeClaudeKey(apiKey)
StoreClaudeKeyCall ==
  /\ lib.fn = "storeClaudeKey" /\ ~lib.done
  /\ Finished(storeClaudeKey(lib.script, <<>>))

\* runFullSetup(options)
RunFullSetupCall ==
  /\ lib.fn = "runFullSetup" /\ ~lib.done
  /\ Finished(runFullSetup(lib.script, <<>>))

\* cloneVaultRepo(sshUrl), invoked MaxClones times in a row on the machine:
\* each invocation goes on in the script from where the one before stopped.
CloneVaultRepoCall ==
  /\ lib.fn = "cloneVaultRepo" /\ ~lib.done
  /\ LET result == cloneVaultRepo(lib.script, lib.result.trace)
         dir == DirAfter(lib.dir0, lib.envs, Len(BashCalls(result.trace)))
     IN  lib' = [lib EXCEPT !.result = result,
                            !.dir = dir,
                            !.once = IF lib.calls = 0 THEN dir ELSE @,
                            !.calls = @ + 1,
                            !.done = (lib.calls + 1 = MaxClones)]
  /\ UNCHANGED <<db, pc, loc, clean>>

LibNext ==
  \/ RunCommandCall
  \/ WaitForVMReadyCall
  \/ InstallPythonCall
  \/ ConfigureGitCall
  \/ GenerateSSHKeyCall
  \/ SetupGitSyncCall
  \/ SetupRalphWiggumCall
  \/ CloneRepositoriesCall
  \/ InstallBrowserUseCall
  \/ InstallOrgoPythonSDKCall
  \/ StoreClaudeKeyCall
  \/ RunFullSetupCall
  \/ CloneVaultRepoCall

SpecLib == LibInit /\ [][LibNext]_vars

\* -------------------------------------- the machine-creation loop on its own
\* Run lib.param obtains its machine from a provider that answers as
\* lib.script says.
CreateInit ==
  /\ db = NoRow
  /\ pc = [r \in Runs |-> "idle"]
  /\ loc = [r \in Runs |-> NewLocals]
  /\ clean = TRUE
  /\ \E r \in Runs, env \in CreateEnvs :
       lib = [NoCall EXCEPT !.fn = "obtainComputer", !.script = env,
                            !.param = r, !.done = FALSE]

\* start/route.ts 136-188
ObtainComputerCall ==
  /\ lib.fn = "obtainComputer" /\ ~lib.done
  /\ Finished(obtainComputer(lib.param, lib.script))

CreateNext == ObtainComputerCall

SpecCreate == CreateInit /\ [][CreateNext]_vars

\* ------------------------------ the deploy key and the vault clone on their own
\* Run lib.param, whose vault repository is lib.repo (the recorded one, or
\* the one it has created), generates the key, registers it and clones.
KeyInit ==
  /\ db = NoRow
  /\ pc = [r \in Runs |-> "idle"]
  /\ loc = [r \in Runs |-> NewLocals]
  /\ clean = TRUE
  /\ \E r \in Runs, script \in ScriptsOf(SshAnswers, 6),
        a \in DeployKeyAnswers :
       \E repo \in {SignInRepo, RunRepo(r)} :
         lib = [fn |-> "cloneWithDeployKey", script |-> script, param |-> r,
                done |-> FALSE, repo |-> repo, deployKey |-> a,
                result |-> Chain(FALSE, NULL, NULL, <<>>)]

\* start/route.ts 265-291
CloneWithDeployKeyCall ==
  /\ lib.fn = "cloneWithDeployKey" /\ ~lib.done
  /\ Finished(cloneWithDeployKey(lib.script, lib.repo, SshUrl(lib.repo),
                                 lib.deployKey))

KeyNext == CloneWithDeployKeyCall

SpecKey == KeyInit /\ [][KeyNext]_vars

\* ------------------------------------------------- the reset on its own
\* The rows a reset request can find: none, the row of the sign-in, the row
\* as a run leaves it before and after it has recorded a machine, failed or
\* ready, and any of these after a reset.
ResetRows ==
  LET Written(row) ==
        LET provisioning == Merge(Merge(row, [status |-> "provisioning"]),
                                  [orgoProjectId |-> "project-1"])
            computer == Merge(provisioning,
                              [orgoComputerId |-> RunComputer(1),
                               orgoComputerUrl |-> ComputerUrl(RunComputer(1)),
                               vmStatus |-> "creating"])
            created == Merge(computer, [vmCreated |-> TRUE, vmStatus |-> "running"])
            failed == [status |-> "failed", errorMessage |-> Message("error")]
            ready == [f \in StepFlags \cup {"status"} |->
                        IF f = "status" THEN "ready" ELSE TRUE]
        IN {row, provisioning, Merge(provisioning, failed),
            computer, Merge(computer, failed),
            created, Merge(created, failed), Merge(created, ready)}
      rows == UNION {Written(row) : row \in SignedIn \ {NoRow}}
  IN {NoRow} \cup rows \cup {Merge(row, ResetData) : row \in rows}

\* lib.row is the row the request finds.
ResetInit ==
  /\ db \in ResetRows
  /\ pc = [r \in Runs |-> "idle"]
  /\ loc = [r \in Runs |-> NewLocals]
  /\ clean = TRUE
  /\ \E req \in ResetRequests, del \in DeleteComputer, dbOk \in BOOLEAN :
       lib = [fn |-> "resetSetup", done |-> FALSE, req |-> req, del |-> del,
              dbOk |-> dbOk, row |-> db, result |-> Response(0, <<>>, db)]

\* status/route.ts 74-148
ResetCall ==
  /\ lib.fn = "resetSetup" /\ ~lib.done
  /\ lib' = [lib EXCEPT !.done = TRUE,
                        !.result = resetSetup(lib.req, db, lib.del, lib.dbOk)]
  /\ db' = resetSetup(lib.req, db, lib.del, lib.dbOk).row
  /\ UNCHANGED <<pc, loc, clean>>

ResetNext == ResetCall

SpecReset == ResetInit /\ [][ResetNext]_vars

\* ================================================================ claims

\* C1: in every persisted state, whatever the interleaving of start, reset
\* and runs, status 'ready' implies that the six step flags are true and
\* errorMessage is null.
C1_ReadyImpliesAllFlags ==
  db.status = "ready" => AllFlagsTrue(db) /\ db.errorMessage = NULL

\* C2: a run whose latest Step Library call of the VM configuration returned
\* failure goes no further: it is in its catch block, about to persist
\* 'failed', and not at a later step or write.
C2_FailedStepStopsRun ==
  \A r \in Runs : ~loc[r].ret => pc[r] = "catch"

\* C3: a run that has caught an exception persists status 'failed' with a
\* non-null errorMessage and returns normally: runSetupProcess never rejects.
C3_CatchPersistsFailed ==
  [][\A r \in Runs :
       pc[r] = "catch" /\ pc'[r] # "catch"
         => /\ pc'[r] = "done"
            /\ db'.status = "failed"
            /\ db'.errorMessage # NULL]_vars

\* C4: in every persisted state, status 'failed' implies a non-null
\* errorMessage.
C4_FailedHasMessage ==
  db.status = "failed" => db.errorMessage # NULL

\* C4, its case: a run has ended by persisting 'failed'.
C4_Witness ==
  /\ db.status = "failed"
  /\ \E r \in Runs : pc[r] = "done"

\* C5: in every persisted state, a recorded machine (orgoComputerId non-null)
\* implies vmCreated.
C5_MachineImpliesVmCreated ==
  db.orgoComputerId # NULL => db.vmCreated

\* C6: a step flag goes from true to false only in the write of a reset (the
\* reset endpoint, or start's write on the row it found); no write of a run
\* sets a flag to false.  A flag therefore becomes true at most once between
\* two resets.
C6_FlagsRevertOnlyOnReset ==
  [][(\E f \in StepFlags : db[f] /\ ~db'[f])
       => (Reset \/ \E r \in Runs : StartWrite(r))]_vars

\* C6, its case: after the first run has ended, the restart has taken the
\* flags back and the second run has set every one of them again.
C6_Witness ==
  /\ pc[1] = "done"
  /\ pc[2] = "L316"
  /\ AllFlagsTrue(db)

\* C7: a run writes repoCloned, browserUseInstalled, gitSyncConfigured or
\* ralphWiggumSetup true only when the Step Library call just before the
\* write (cloneVaultRepo, installBrowserUse, setupGitSync, setupRalphWiggum)
\* has returned success.
C7_FlagOnlyAfterSuccess ==
  [][\A r \in Runs :
       /\ pc[r] \in {"L291", "L298", "L302", "L310"}
       /\ pc'[r] \notin {pc[r], "catch"}
       => loc[r].ret]_vars

\* The changes of the persisted status listed in C8.
C8_ClaimedSequence ==
  {<<"pending", "provisioning">>,
   <<"provisioning", "configuring_vm">>,
   <<"configuring_vm", "ready">>}

\* The changes of the persisted status the run makes when no repository is
\* recorded.
C8_AmendedSequence ==
  {<<"pending", "provisioning">>,
   <<"provisioning", "creating_repo">>,
   <<"creating_repo", "configuring_vm">>,
   <<"configuring_vm", "ready">>}

\* C8 as stated: from a fresh state (no repository recorded by the sign-in)
\* and with every call succeeding, the persisted status only ever changes
\* along provisioning -> configuring_vm -> ready.
C8_Original ==
  [][clean' /\ db.vaultRepoName # SignInRepo /\ db'.status # db.status
       => <<db.status, db'.status>> \in C8_ClaimedSequence]_vars

\* C8, amended: from a fresh state and with every call succeeding, the
\* persisted status changes only along provisioning -> creating_repo ->
\* configuring_vm -> ready, no flag goes back to false, and the run ends
\* with status 'ready', every flag true and errorMessage null.
C8_Amended ==
  [][clean' /\ db.vaultRepoName # SignInRepo
       => /\ db'.status # db.status
               => <<db.status, db'.status>> \in C8_AmendedSequence
          /\ \A f \in StepFlags : db[f] => db'[f]
          /\ pc'[1] = "done"
               => /\ db'.status = "ready"
                  /\ AllFlagsTrue(db')
                  /\ db'.errorMessage = NULL]_vars

\* C8, its case: the only run, started on a row recording no repository, has
\* ended with every call having succeeded.
C8_Witness ==
  /\ clean
  /\ pc[1] = "done"
  /\ db.vaultRepoName = RunRepo(1)
  /\ db.status = "ready"

\* C9: a run that failed because every createComputer call timed out and no
\* listing found the machine leaves status 'failed', a non-null errorMessage
\* and no machine recorded; this with no other run in flight, the start
\* being the first one or a retry after an earlier run.
C9_TimeoutLeavesNoMachine ==
  [][\A r \in Runs :
       /\ \A q \in Runs \ {r} : pc[q] \in {"idle", "done", "rejected", "http_error"}
       /\ pc[r] = "catch"
       /\ loc[r].error = "timed out"
       /\ loc[r].allTimedOut
       /\ pc'[r] = "done"
       => /\ db'.status = "failed"
          /\ db'.errorMessage # NULL
          /\ db'.orgoComputerId = NULL]_vars

\* C10: a run that found a repository recorded and was answered that it
\* still exists calls createVaultRepo zero times, and the identifiers it
\* writes are the recorded ones.
C10_RecordedRepoReused ==
  [][\A r \in Runs :
       loc'[r].repoExists
         => /\ loc'[r].createCalls = 0
            /\ (pc[r] = "L214" /\ pc'[r] = "L245")
                 => /\ db'.vaultRepoName = loc[r].snapRepo
                    /\ db'.vaultRepoUrl = RepoUrl(loc[r].snapRepo)]_vars

\* C10, its case: the second run has reused the repository the first run
\* had created, although start had reset repoCreated before it read the row.
C10_Witness ==
  /\ pc[1] = "done"
  /\ pc[2] = "L316"
  /\ loc[2].repoExists
  /\ loc[2].snapRepo = RunRepo(1)
  /\ db.vaultRepoName = RunRepo(1)
  /\ db.repoCreated

\* The labels at which a run is in flight: launched and not yet over.
C11_InFlight ==
  {"L106", "L125", "L134", "L184", "L194", "L214", "L229", "L236", "L245",
   "L291", "L298", "L302", "L310", "L316", "catch"}

\* C11: at any time at most one run is in flight for the user: a start made
\* while an earlier run is not over never gives two runs that issue steps
\* and write the same record concurrently.
C11_OneRunInFlight ==
  Cardinality({r \in Runs : pc[r] \in C11_InFlight}) <= 1

\* C12: a run whose machine was torn down while it was in flight, so that
\* every later command failed, ends with status 'failed': it never ends by
\* writing 'ready'.
C12_TeardownEndsFailed ==
  [][\A r \in Runs :
       loc[r].vmDown /\ pc[r] # "done" /\ pc'[r] = "done"
         => db'.status = "failed"]_vars

\* C13: when start answers success on a row that existed, its write has
\* left the row with status 'provisioning', the six flags false and
\* errorMessage null; the run it launched is not awaited and is then at its
\* first read (line 106), before any write of its own.
C13_RestartWrittenFirst ==
  [][\A r \in Runs :
       pc[r] = "post_write" /\ pc'[r] # "post_write" /\ loc[r].found
         => \/ pc'[r] = "http_error" /\ db' = db
            \/ /\ pc'[r] = "L106"
               /\ db'.status = "provisioning"
               /\ \A f \in StepFlags : db'[f] = FALSE
               /\ db'.errorMessage = NULL]_vars

\* C13, its case: after the first run has ended having recorded a machine,
\* a second start has been answered and its run is about to read the row.
C13_Witness ==
  /\ pc[1] = "done"
  /\ pc[2] = "L106"
  /\ loc[2].found
  /\ db.orgoComputerId # NULL
  /\ db.status = "provisioning"

\* C14: on a row that records a machine, the reset request writes status
\* 'pending', the six flags false, orgoComputerId, orgoComputerUrl and
\* orgoProjectId null and errorMessage null, whether deleteComputer
\* succeeded, answered not-found or failed with another error.
C14_ResetWhateverDeleteAnswers ==
  db.exists /\ db.orgoComputerId # NULL
    => \A del \in DeleteComputer :
         LET row == ResetRow(db, del) IN
           /\ row.status = "pending"
           /\ \A f \in StepFlags : row[f] = FALSE
           /\ row.orgoComputerId = NULL
           /\ row.orgoComputerUrl = NULL
           /\ row.orgoProjectId = NULL
           /\ row.errorMessage = NULL

\* C14, its case: a row that was started on (it holds the API key) and has
\* been reset since.
C14_Witness ==
  /\ db.claudeApiKey # NULL
  /\ db.status = "pending"
  /\ db.orgoComputerId = NULL
  /\ \A f \in StepFlags : db[f] = FALSE

\* C15: a reset leaves vaultRepoName, vaultRepoUrl and claudeApiKey as they
\* were, and a run reading the row keeps the repository it records: a start
\* after the reset goes on to reuse it.
C15_ResetKeepsRepo ==
  [][/\ Reset => /\ db'.vaultRepoName = db.vaultRepoName
                 /\ db'.vaultRepoUrl = db.vaultRepoUrl
                 /\ db'.claudeApiKey = db.claudeApiKey
     /\ \A r \in Runs :
          pc[r] = "L106" /\ pc'[r] \notin {"L106", "catch"}
            => loc'[r].snapRepo = db.vaultRepoName]_vars

\* C15, its case: the first run created the repository and recorded its
\* machine, the row was reset, and the second start's run has read the row
\* with the repository still recorded.
C15_Witness ==
  /\ pc[1] = "done"
  /\ pc[2] = "L125"
  /\ loc[2].snapRepo = RunRepo(1)
  /\ db.orgoComputerId = NULL
  /\ db.status = "provisioning"

\* The client calls an ended Step Library action has made.
LibCalls == BashCalls(lib.result.trace)

\* The runCommand invocations an ended Step Library action has made: each
\* reports its command and its success to onProgress once, as it ends.
LibCommands == SelectSeq(lib.result.trace, LAMBDA e : e.ev = "progress")

\* C16: when the client answers the command with a nonzero exit code (no
\* exception), runCommand has called it exactly once and returns success =
\* false with that result's output, whatever the retries parameter; more
\* generally no call follows a call that returned a result.
C16_NonzeroExitNotRetried ==
  lib.fn = "runCommand" /\ lib.done
    => /\ \A k \in 1..(Len(LibCalls) - 1) : LibCalls[k].ans.kind # "result"
       /\ (lib.script[1].kind = "result" /\ lib.script[1].exit_code # 0)
            => /\ Len(LibCalls) = 1
               /\ lib.result.success = FALSE
               /\ lib.result.output = lib.script[1].text

\* C16, its case: runCommand with three retries allowed has ended on a
\* command that exited nonzero at its first call.
C16_Witness ==
  /\ lib.fn = "runCommand" /\ lib.done
  /\ lib.param = MaxRetriesParam
  /\ lib.script[1] = Result(1, "output")
  /\ Len(LibCalls) = 1

\* The transport failures runCommand takes as transient.
C17_Transient ==
  {Raised("502 Bad Gateway"), Raised("Failed to execute command"),
   Raised("connect ECONNREFUSED")}

\* C17: when every call raises a transient transport failure and retries =
\* 2, runCommand calls the client 3 times, sleeps 2000 ms before the second
\* call and 4000 ms before the third, and returns success = false with the
\* message of the last error as output.
C17_ThreeCallsWithBackoff ==
  /\ lib.fn = "runCommand" /\ lib.done
  /\ lib.param = 2
  /\ \A k \in DOMAIN lib.script : lib.script[k] \in C17_Transient
  => LET trace == SelectSeq(lib.result.trace, LAMBDA e : e.ev # "progress") IN
     /\ Len(trace) = 5
     /\ \A i \in {1, 3, 5} : trace[i].ev = "bash"
     /\ trace[2] = Sleep(2000)
     /\ trace[4] = Sleep(4000)
     /\ lib.result.success = FALSE
     /\ lib.result.output = Answer(lib.script, 3).text

\* C17, its case: runCommand has ended after a gateway error, a refused
\* connection and an execution failure.
C17_Witness ==
  /\ lib.fn = "runCommand" /\ lib.done
  /\ lib.param = 2
  /\ lib.script = <<Raised("502 Bad Gateway"), Raised("connect ECONNREFUSED"),
                    Raised("Failed to execute command")>>
  /\ Len(LibCalls) = 3

\* C18: when every call of the client fails at transport level (it raises:
\* network error, gateway error or timeout), runCommand has used all its
\* retries before giving up: it has made retries + 1 calls.
C18_EveryTransportFailureRetried ==
  /\ lib.fn = "runCommand" /\ lib.done
  /\ \A k \in DOMAIN lib.script : lib.script[k].kind # "result"
  => Len(LibCalls) = lib.param + 1

\* A command was issued again after it had run and exited nonzero.
C19_Reissued ==
  \E i, j \in DOMAIN LibCalls :
    /\ i < j
    /\ LibCalls[i].cmd = LibCalls[j].cmd
    /\ LibCalls[i].ans.kind = "result"
    /\ LibCalls[i].ans.exit_code # 0

\* The calls of a command that ran and exited nonzero.
C19_NonzeroExits(command) ==
  {i \in DOMAIN LibCalls :
     /\ LibCalls[i].cmd = command
     /\ LibCalls[i].ans.kind = "result"
     /\ LibCalls[i].ans.exit_code # 0}

C20_FirstReady ==
  LET ok == {k \in 1..lib.param :
               Answer(lib.script, k).kind = "result"
               /\ Answer(lib.script, k).exit_code = 0}
  IN  IF ok = {} THEN 0 ELSE CHOOSE k \in ok : \A m \in ok : k <= m

\* C20: waitForVMReady returns true at the first poll that has exit code 0
\* and polls no more; when no poll succeeds (each one throws or exits
\* nonzero) it makes exactly maxRetries polls and returns false; it sleeps
\* delayMs between two consecutive polls, and only there.
C20_ReadyAtFirstSuccess ==
  lib.fn = "waitForVMReady" /\ lib.done
    => LET polls == IF C20_FirstReady = 0 THEN lib.param ELSE C20_FirstReady
           trace == lib.result.trace
       IN  /\ lib.result.success = (C20_FirstReady # 0)
           /\ Len(LibCalls) = polls
           /\ Len(trace) = IF polls = 0 THEN 0 ELSE 2 * polls - 1
           /\ \A i \in DOMAIN trace :
                IF i % 2 = 1 THEN trace[i].ev = "bash"
                             ELSE trace[i] = Sleep(ReadyDelayMs)

\* C20, its case: three polls were asked for, the first threw and the others
\* exited nonzero: three polls, two sleeps, false.
C20_Witness ==
  /\ lib.fn = "waitForVMReady" /\ lib.done
  /\ lib.param = 3
  /\ lib.script = <<Raised("Request timed out"), Result(1, "output")>>
  /\ lib.result.success = FALSE
  /\ Len(LibCalls) = 3
  /\ Len(Sleeps(lib.result.trace)) = 2

\* C21: a run whose installPython has returned false because the readiness
\* gate returned false attempts no further step (it is in its catch block)
\* and ends with status 'failed' persisted.
C21_ReadinessTimeoutEndsFailed ==
  [][\A r \in Runs :
       loc[r].readyTimeout
         => /\ pc[r] = "catch" /\ ~loc[r].ret
            /\ pc'[r] # "catch" => db'.status = "failed"]_vars

\* The places of the trace at which a sentinel check of installBrowserUse
\* ended, and whether the output of the check, trimmed, was DONE.
C22_Checks ==
  {i \in DOMAIN lib.result.trace :
     /\ lib.result.trace[i].ev = "progress"
     /\ lib.result.trace[i].cmd = BrowserCheck}
C22_Done(i) == Trim(lib.result.trace[i - 1].ans.text) = "DONE"

\* C22: installBrowserUse, its script written, makes 30 sentinel checks at
\* most, each one right after a sleep of the interval; the first check
\* whose trimmed output is DONE is the last one, it is followed by the
\* read-back verification, whose success is what is returned; when 30
\* checks have passed without DONE the tail of the log is fetched and false
\* is returned; no command other than the write, the launch, the check, the
\* verification and the tail is issued (nothing kills the background job).
C22_BoundedPollThenVerify ==
  lib.fn = "installBrowserUse" /\ lib.done /\ Len(LibCommands) > 1
    => LET trace == lib.result.trace
           ran == LibCommands
           last == ran[Len(ran)]
       IN  /\ Cardinality(C22_Checks) <= BrowserPolls
           /\ \A i \in DOMAIN trace :
                trace[i] = Sleep(BrowserIntervalMs)
                  => trace[i + 1].ev = "bash" /\ trace[i + 1].cmd = BrowserCheck
           /\ Len(SelectSeq(trace, LAMBDA e : e = Sleep(BrowserIntervalMs)))
                = Cardinality(C22_Checks)
           /\ \A i \in C22_Checks :
                C22_Done(i) => \A j \in C22_Checks : j <= i
           /\ IF \E i \in C22_Checks : C22_Done(i)
                THEN last.cmd = BrowserVerify /\ lib.result.success = last.ok
                ELSE /\ Cardinality(C22_Checks) = BrowserPolls
                     /\ last.cmd = BrowserTail
                     /\ lib.result.success = FALSE
           /\ \A i \in DOMAIN LibCalls :
                LibCalls[i].cmd \in {BrowserWrite, BrowserLaunch, BrowserCheck,
                                     BrowserVerify, BrowserTail}

\* C22, its case: the second check gave DONE and the verification failed:
\* two checks, false.
C22_Witness ==
  /\ lib.fn = "installBrowserUse" /\ lib.done
  /\ Cardinality(C22_Checks) = 2
  /\ \E i \in C22_Checks : C22_Done(i)
  /\ LibCommands[Len(LibCommands)].cmd = BrowserVerify
  /\ lib.result.success = FALSE

\* The items of the list whose clone failed, in list order.
C23_FailedItems ==
  SelectSeq(Repos(lib.param),
            LAMBDA name : \E i \in DOMAIN LibCommands :
                            /\ LibCommands[i].cmd = CloneCommand(name)
                            /\ ~LibCommands[i].ok)

\* C23: cloneRepositories issues the re-clone (rm -rf && git clone) of every
\* item of its list, once and in list order, whatever the earlier items
\* gave; it returns success = true exactly when no item failed and errors
\* holds exactly the failed items, in list order; no command it issues
\* touches an item cloned earlier.
C23_EveryItemAttempted ==
  lib.fn = "cloneRepositories" /\ lib.done
    => LET ran == LibCommands IN
       /\ Len(ran) = lib.param + 1
       /\ ran[1].cmd = ReposMkdir
       /\ \A i \in 1..lib.param : ran[i + 1].cmd = CloneCommand(RepoName(i))
       /\ \A i, j \in DOMAIN LibCalls :
            i < j /\ LibCalls[j].cmd = LibCalls[i].cmd
              => \A m \in i..j : LibCalls[m].cmd = LibCalls[i].cmd
       /\ [k \in DOMAIN lib.result.errors |-> lib.result.errors[k].repo]
            = C23_FailedItems
       /\ lib.result.success = (C23_FailedItems = <<>>)

\* C23, its case: three items, the second failed: success = false, errors
\* holds item 2 alone, and items 1 and 3 were cloned.
C23_Witness ==
  /\ lib.fn = "cloneRepositories" /\ lib.done
  /\ lib.param = 3
  /\ LibCommands[2].ok /\ ~LibCommands[3].ok /\ LibCommands[4].ok
  /\ lib.result.success = FALSE
  /\ Len(lib.result.errors) = 1
  /\ lib.result.errors[1].repo = RepoName(2)

\* C24: generateSSHKey fails closed: when one of its sub-steps fails
\* (directory creation, installation of the tool when the check asks for it,
\* removal of the prior key, key generation, read-back of the public key) no
\* later sub-step is issued and the result is success = false with an empty
\* publicKey; success = true comes with a publicKey that is not empty.
C24_GenerateSSHKeyFailsClosed ==
  lib.fn = "generateSSHKey" /\ lib.done
    => /\ \A i \in DOMAIN LibCommands :
            ~LibCommands[i].ok /\ LibCommands[i].cmd # SshCheck
              => /\ i = Len(LibCommands)
                 /\ lib.result.success = FALSE
                 /\ lib.result.output = ""
       /\ lib.result.success => lib.result.output # ""

\* C25: configureGit issues its four commands in the order of the list; it
\* returns false at the first command that fails, having issued none of the
\* later ones, and true only when all four succeeded.
C25_ConfigureGitShortCircuits ==
  lib.fn = "configureGit" /\ lib.done
    => LET ran == LibCommands IN
       /\ Len(ran) \in 1..Len(ConfigureGitCommands)
       /\ \A i \in DOMAIN ran : ran[i].cmd = ConfigureGitCommands[i]
       /\ \A i \in DOMAIN ran : ~ran[i].ok => i = Len(ran)
       /\ \A i \in DOMAIN LibCalls :
            \E j \in DOMAIN ran : LibCalls[i].cmd = ran[j].cmd
       /\ lib.result.success
            = (Len(ran) = Len(ConfigureGitCommands) /\ \A i \in DOMAIN ran : ran[i].ok)

\* C25, its case: the second command of configureGit failed; the third and
\* the fourth were not issued.
C25_Witness ==
  /\ lib.fn = "configureGit" /\ lib.done
  /\ Len(LibCommands) = 2
  /\ ~LibCommands[2].ok
  /\ lib.result.success = FALSE

\* C26: setupGitSync returns false, having tried neither the cron job nor
\* the loop, when writing the sync script or the loop script failed;
\* otherwise it registers the cron job and returns true when that succeeded,
\* without launching the loop; only when the registration failed does it
\* launch the detached loop, and it returns the outcome of that launch.
C26_LoopOnlyAfterCronFailed ==
  lib.fn = "setupGitSync" /\ lib.done
    => LET ran == LibCommands
           issued(command) == \E i \in DOMAIN LibCalls : LibCalls[i].cmd = command
       IN  /\ ran[1].cmd = SyncWriteScript
           /\ IF ~ran[1].ok
                THEN Len(ran) = 1 /\ ~lib.result.success
              ELSE IF ~ran[2].ok
                THEN /\ Len(ran) = 2 /\ ran[2].cmd = SyncWriteDaemon
                     /\ ~lib.result.success
              ELSE IF ran[3].ok
                THEN /\ Len(ran) = 3 /\ ran[3].cmd = SyncCron
                     /\ lib.result.success
              ELSE /\ Len(ran) = 4 /\ ran[3].cmd = SyncCron
                   /\ ran[4].cmd = SyncStartDaemon
                   /\ lib.result.success = ran[4].ok
           /\ Len(ran) < 3 => ~issued(SyncCron)
           /\ Len(ran) < 4 => ~issued(SyncStartDaemon)

\* C26, its case: both scripts were written, the cron job could not be
\* registered and the loop was launched: true.
C26_Witness ==
  /\ lib.fn = "setupGitSync" /\ lib.done
  /\ Len(LibCommands) = 4
  /\ ~LibCommands[3].ok /\ LibCommands[4].ok
  /\ lib.result.success

\* C27: in setupRalphWiggum, once the download, the verification and the
\* creation of the wrapper have succeeded, the two process kills and the
\* removal of the lock file are issued, then the relaunch, always and in
\* that order, and what is returned is the success of the relaunch whatever
\* the three cleanup commands gave.
C27_CleanupFailuresIgnored ==
  lib.fn = "setupRalphWiggum" /\ lib.done
    => LET ran == LibCommands IN
       Len(ran) > 3
         => /\ \A i \in 1..3 : ran[i].ok
            /\ Len(ran) = 7
            /\ <<ran[4].cmd, ran[5].cmd, ran[6].cmd, ran[7].cmd>>
                 = <<RalphKillWrapper, RalphKillScript, RalphRemoveLock, RalphStart>>
            /\ lib.result.success = ran[7].ok

\* C27, its case: the three cleanup commands failed and the relaunch
\* succeeded: true.
C27_Witness ==
  /\ lib.fn = "setupRalphWiggum" /\ lib.done
  /\ Len(LibCommands) = 7
  /\ \A i \in 4..6 : ~LibCommands[i].ok
  /\ LibCommands[7].ok
  /\ lib.result.success

\* C28: the destructive clone is idempotent.  Whatever ~/vault held, when
\* nothing goes wrong cloneVaultRepo returns true and leaves in ~/vault the
\* files of the repository and no other, after one invocation and after
\* two; each time it returns true that is what ~/vault holds; and on a
\* machine that behaves the same at every call, two invocations in a row
\* leave ~/vault as one did.
C28_CloneIdempotent ==
  lib.fn = "cloneVaultRepo" /\ lib.calls >= 1
    => /\ lib.result.success => lib.dir = RepoFiles
       /\ (\A k \in DOMAIN lib.envs : lib.envs[k] = "ok")
            => /\ lib.result.success
               /\ lib.once = RepoFiles
               /\ lib.dir = lib.once
       /\ Len(lib.envs) = 1 => lib.dir = lib.once

\* C28, its case: ~/vault held an earlier clone and a stale file; two
\* invocations in a row have left the files of the repository alone, as
\* the first had.
C28_Witness ==
  /\ lib.fn = "cloneVaultRepo" /\ lib.calls = 2
  /\ lib.dir0 = RepoFiles \cup {"stale.md"}
  /\ lib.envs = <<"ok">>
  /\ lib.once = RepoFiles
  /\ lib.dir = RepoFiles
  /\ Len(LibCalls) = 2

\* C29: no Step Library action throws to its caller, whatever the client
\* answers (any exit code) or raises (any error, or a value that is no
\* Error): each returns a value; what the client raised at the last call of
\* a runCommand comes back as success = false with the message as output.
C29_NoActionThrows ==
  lib.done /\ lib.fn # "none"
    => /\ lib.result.threw = FALSE
       /\ (lib.fn = "runCommand" /\ LibCalls[Len(LibCalls)].ans.kind # "result")
            => /\ lib.result.success = FALSE
               /\ lib.result.output
                    = IF LibCalls[Len(LibCalls)].ans.kind = "error"
                        THEN LibCalls[Len(LibCalls)].ans.text
                        ELSE "Unknown error"

\* C29, its case: runFullSetup has ended on a client that throws a value
\* that is no Error at every call: it has returned failure.
C29_Witness ==
  /\ lib.fn = "runFullSetup" /\ lib.done
  /\ lib.script = <<NotAnError>>
  /\ lib.result.threw = FALSE
  /\ lib.result.success = FALSE
  /\ Len(LibCalls) > 0

\* C30: a runCommand invocation hands exactly one ProgressEvent to
\* onProgress, at its end (after its last client call, whether that call
\* returned a result or raised the terminal error), carrying the success it
\* returns; an attempt that is followed by a retry is followed by a sleep
\* and no event, however many retries are used.
C30_OneProgressEvent ==
  lib.fn = "runCommand" /\ lib.done
    => LET trace == lib.result.trace IN
       /\ Len(ProgressEvents(trace)) = 1
       /\ trace[Len(trace)] = Progress("command", lib.result.success)
       /\ trace[Len(trace) - 1].ev = "bash"
       /\ \A i \in 1..(Len(trace) - 2) :
            trace[i].ev = "bash" => trace[i + 1].ev = "sleep"

\* C30, its case: runCommand has ended in success at its third call, after
\* two retries.
C30_Witness ==
  /\ lib.fn = "runCommand" /\ lib.done
  /\ lib.param = 2
  /\ lib.script = <<Raised("502 Bad Gateway"), Raised("connect ECONNREFUSED"),
                    Result(0, "output")>>
  /\ lib.result.success
  /\ Len(LibCalls) = 3
  /\ Len(ProgressEvents(lib.result.trace)) = 1

\* C31: once a reset has left the record at status 'pending' with every
\* flag false and no machine id, the record stays so until the next start
\* writes it: no write of a run started earlier changes it.
C31_ResetNotOverwritten ==
  [][/\ db.exists /\ db.claudeApiKey # NULL
     /\ db.status = "pending"
     /\ \A f \in StepFlags : db[f] = FALSE
     /\ db.orgoComputerId = NULL
     => \/ /\ db'.status = "pending"
           /\ \A f \in StepFlags : db'[f] = FALSE
           /\ db'.orgoComputerId = NULL
        \/ \E r \in Runs : StartWrite(r)]_vars

\* C32: the creation loop of a run leaves at most one machine made for the
\* run at the provider, also when a createComputer call that timed out at
\* the client is carried out by the provider, before or after the listing.
C32_AtMostOneMachine ==
  lib.fn = "obtainComputer" /\ lib.done => lib.result.made <= 1

\* The createComputer calls an ended creation loop has made.
C33_Creates == CreateCalls(lib.result.trace)

\* The error of a createComputer call is one of a timeout.
C33_TimedOut(a) ==
  /\ a.kind = "raised"
  /\ a.message \in {"Request timed out", "connect ETIMEDOUT"}

\* C33: the creation loop calls createComputer at most 3 times; a call that
\* returns a machine, or a listing that finds it, ends the loop with that
\* machine; a listing is made exactly after a create that raised a timeout
\* error (5 s later); when the third attempt fails too, the run throws the
\* error of the last createComputer call and writes no machine id.  A run
\* that got a machine writes its id.
C33_CreateLoopBounded ==
  lib.fn = "obtainComputer" /\ lib.done
    => LET res == lib.result
           trace == res.trace
       IN
       /\ Len(C33_Creates) \in 1..CreateRetries
       /\ \A i \in DOMAIN trace :
            /\ (trace[i].ev = "create" /\ trace[i].ok) => i = Len(trace)
            /\ (trace[i].ev = "list" /\ trace[i].ok) => i = Len(trace)
            /\ trace[i].ev = "list"
                 => /\ i > 2
                    /\ trace[i - 1] = Sleep(ListDelayMs)
                    /\ trace[i - 2].ev = "create"
                    /\ C33_TimedOut(trace[i - 2].ans)
            /\ (trace[i].ev = "create" /\ C33_TimedOut(trace[i].ans))
                 => /\ i + 2 <= Len(trace)
                    /\ trace[i + 2].ev = "list"
       /\ res.computer # NULL
            <=> trace[Len(trace)].ev \in {"create", "list"} /\ trace[Len(trace)].ok
       /\ res.computer # NULL
            => ~res.threw /\ res.recorded = RunComputer(lib.param)
       /\ res.computer = NULL
            => /\ res.threw
               /\ res.recorded = NULL
               /\ Len(C33_Creates) = CreateRetries
               /\ res.error = C33_Creates[CreateRetries].ans.message

\* C33, its case: the first create timed out and its listing found nothing,
\* the second timed out and its listing found the machine, which is used.
C33_Witness ==
  /\ lib.fn = "obtainComputer" /\ lib.done
  /\ Len(C33_Creates) = 2
  /\ \A i \in 1..2 : C33_TimedOut(C33_Creates[i].ans)
  /\ lib.result.trace[Len(lib.result.trace)].ev = "list"
  /\ lib.result.recorded = RunComputer(lib.param)
  /\ lib.result.made = 1

\* C34: under fair scheduling, every run terminates, and once a start has
\* been accepted (its run is launched, line 64) the persisted status
\* eventually is 'ready' or 'failed'.
C34_EventuallyTerminal ==
  \A r \in Runs :
    pc[r] = "L106" ~> /\ pc[r] \in {"done", "rejected"}
                      /\ db.status \in {"ready", "failed"}

\* The labels at which a run accesses the record, in the order of the code.
C35_Labels ==
  <<"L106", "L125", "L134", "L184", "L194", "L214", "L229", "L236", "L245",
    "L291", "L298", "L302", "L310", "L316">>

C35_Rank(l) == CHOOSE i \in DOMAIN C35_Labels : C35_Labels[i] = l

\* The status the write made at a label carries (NULL: none).
C35_Written(l) ==
  CASE l = "L125" -> "provisioning"
    [] l = "L229" -> "creating_repo"
    [] l = "L245" -> "configuring_vm"
    [] l = "L316" -> "ready"
    [] l = "catch" -> "failed"
    [] OTHER -> NULL

\* C35: the writes of one run come in the order of the code, so that the
\* statuses it writes are, in this order, provisioning, creating_repo,
\* configuring_vm and ready, or failed from wherever it stands; a step of a
\* run changes the status only to the one of its write; creating_repo is
\* written exactly by the runs that go on to call createVaultRepo, never by
\* a run that was answered that the recorded repository exists; and the
\* write of 'ready' ends the run.
C35_StatusMovesForward ==
  [][\A r \in Runs :
       pc'[r] # pc[r] /\ (pc[r] = "catch" \/ \E i \in DOMAIN C35_Labels : C35_Labels[i] = pc[r])
         => /\ \/ pc'[r] \in {"catch", "done", "rejected"}
               \/ /\ pc[r] # "catch"
                  /\ C35_Rank(pc'[r]) > C35_Rank(pc[r])
            /\ db'.status # db.status => db'.status = C35_Written(pc[r])
            /\ pc'[r] \notin {"catch", "rejected"} /\ C35_Written(pc[r]) # NULL
                 => db'.status = C35_Written(pc[r])
            /\ pc[r] = "L229" /\ pc'[r] = "L236"
                 => loc'[r].createCalls = 1 /\ ~loc'[r].repoExists
            /\ pc'[r] = "L245"
                 => /\ pc[r] \in {"L214", "L236"}
                    /\ pc[r] = "L236" <=> loc'[r].createCalls = 1
                    /\ pc[r] = "L214" <=> loc'[r].repoExists
            /\ pc'[r] = "done" /\ pc[r] # "catch"
                 => pc[r] = "L316" /\ db'.status = "ready"
            /\ pc[r] = "L316" => pc'[r] \in {"done", "catch"}]_vars

\* C35, its case: a run that found the recorded repository gone has written
\* 'creating_repo', created a new one, and is about to write
\* 'configuring_vm'.
C35_Witness ==
  \E r \in Runs :
    /\ pc[r] = "L245"
    /\ loc[r].snapRepo # NULL
    /\ loc[r].createCalls = 1
    /\ db.status = "creating_repo"

\* C36: the deferred clones are run in the step that follows the write of
\* ralphWiggumSetup (the daemon is deployed) and nowhere else; however they
\* went (a clone error, a metadata parse error, a caught exception), the run
\* is next at its write of 'ready', which it makes: it ends with status
\* 'ready' unless that write itself raises.
C36_DeferredClonesNeverBlock ==
  [][\A r \in Runs :
       /\ loc'[r].deferred \notin {"none", loc[r].deferred}
            => pc[r] = "L310" /\ pc'[r] = "L316" /\ db'.ralphWiggumSetup
       /\ pc[r] = "L310" /\ pc'[r] # "L310"
            => \/ pc'[r] = "L316" /\ loc'[r].deferred \in Deferred
               \/ pc'[r] = "catch" /\ db' = db
       /\ loc[r].deferred # "none" => pc[r] = "L316"
       /\ pc[r] = "L316" /\ pc'[r] # "L316"
            => \/ pc'[r] = "done" /\ db'.status = "ready"
               \/ pc'[r] = "catch" /\ db' = db]_vars

\* C36, its case: the deferred clones have failed for some repository, and
\* the run stands at its write of 'ready'.
C36_Witness ==
  \E r \in Runs :
    /\ pc[r] = "L316"
    /\ loc[r].deferred = "clone_errors"
    /\ db.ralphWiggumSetup

\* The places of the trace at which the vault clone command is issued.
C37_Clones ==
  {i \in DOMAIN lib.result.trace :
     /\ lib.result.trace[i].ev = "bash"
     /\ lib.result.trace[i].cmd = VaultCommand}

\* The places of the trace at which createDeployKey has registered a key.
C37_Registered ==
  {i \in DOMAIN lib.result.trace :
     /\ lib.result.trace[i].ev = "deployKey"
     /\ lib.result.trace[i].ok}

\* What generateSSHKey has returned in the chain.
C37_Key == generateSSHKey(lib.script, <<>>)

\* C37: the vault clone command is issued only after generateSSHKey has
\* returned success with a non-empty public key and createDeployKey has
\* registered that key on the repository whose URL is cloned; when the key
\* generation or the registration fails, the run throws, no clone command is
\* issued and repoCloned is not written; repoCloned is written only after a
\* clone that succeeded.
C37_CloneOnlyWithDeployKey ==
  lib.fn = "cloneWithDeployKey" /\ lib.done
    => LET trace == lib.result.trace IN
       /\ \A i \in C37_Clones :
            /\ C37_Key.success /\ C37_Key.output # ""
            /\ lib.result.url = SshUrl(lib.repo)
            /\ \E j \in C37_Registered :
                 /\ j < i
                 /\ trace[j].repo = lib.repo
                 /\ trace[j].key = C37_Key.output
       /\ (~C37_Key.success \/ C37_Key.output = "" \/ lib.deployKey = "raised")
            => /\ lib.result.threw
               /\ C37_Clones = {}
               /\ \A i \in DOMAIN trace : trace[i].ev # "updateStatus"
       /\ \A i \in DOMAIN trace :
            trace[i].ev = "updateStatus"
              => /\ i = Len(trace) /\ ~lib.result.threw
                 /\ trace[i - 1].ev = "progress" /\ trace[i - 1].cmd = VaultCommand
                 /\ trace[i - 1].ok

\* C37, its case: the key was generated and registered on the repository
\* the run has created, the clone has succeeded and repoCloned is written.
C37_Witness ==
  /\ lib.fn = "cloneWithDeployKey" /\ lib.done
  /\ lib.repo = RunRepo(lib.param)
  /\ ~lib.result.threw
  /\ C37_Clones # {}
  /\ C37_Registered # {}

\* The runCommand invocations installPython has made for a command, as
\* places of LibCommands.
C38_Attempts(command) ==
  {i \in DOMAIN LibCommands : LibCommands[i].cmd = command}

\* C38: installPython hands each of its two package-manager commands to
\* runCommand at most 3 times and stops at the first success; an attempt
\* that failed is followed by a wait of 3 s and a further attempt of the
\* same command, unless it was the third, which ends installPython with
\* false, the following command never being issued; the second command is
\* issued only after the first has succeeded; installPython returns true
\* exactly when both commands have succeeded.
C38_InstallRetriesBounded ==
  lib.fn = "installPython" /\ lib.done
    => LET trace == lib.result.trace
           first == InstallPythonCommands[1]
           second == InstallPythonCommands[2]
       IN
       /\ \A i \in DOMAIN LibCommands : LibCommands[i].cmd \in {first, second}
       /\ \A c \in {first, second} :
            /\ Cardinality(C38_Attempts(c)) <= InstallRetries
            /\ \A i \in C38_Attempts(c) :
                 LibCommands[i].ok => \A j \in C38_Attempts(c) : j <= i
       /\ \A i \in DOMAIN trace :
            trace[i].ev = "progress" /\ ~trace[i].ok
              => \/ /\ i = Len(trace)
                    /\ ~lib.result.success
                    /\ Cardinality(C38_Attempts(trace[i].cmd)) = InstallRetries
                 \/ /\ i + 2 <= Len(trace)
                    /\ trace[i + 1] = Sleep(InstallDelayMs)
                    /\ trace[i + 2].ev = "bash"
                    /\ trace[i + 2].cmd = trace[i].cmd
       /\ \A i \in DOMAIN trace :
            trace[i] = Sleep(InstallDelayMs)
              => i > 1 /\ trace[i - 1].ev = "progress" /\ ~trace[i - 1].ok
       /\ C38_Attempts(second) # {}
            => \E i \in C38_Attempts(first) : LibCommands[i].ok
       /\ lib.result.success
            <=> \A c \in {first, second} :
                  \E i \in C38_Attempts(c) : LibCommands[i].ok

\* C38, its case: the first command has failed twice and succeeded at its
\* third attempt, and the second has succeeded at once.
C38_Witness ==
  /\ lib.fn = "installPython" /\ lib.done
  /\ lib.result.success
  /\ Cardinality(C38_Attempts(InstallPythonCommands[1])) = InstallRetries
  /\ Cardinality(C38_Attempts(InstallPythonCommands[2])) = 1
  /\ Len(Sleeps(lib.result.trace)) = 2

\* C39: a reset request that finds a record holding no machine id (that of a
\* run that failed before it obtained a machine, for one) calls
\* deleteComputer not at all and leaves every field of the record as it was:
\* status, flags and errorMessage are not cleared; the request of a
\* signed-in user whose record could be read is answered 404.
C39_ResetWithoutMachine ==
  lib.fn = "resetSetup" /\ lib.done /\ lib.row.orgoComputerId = NULL
    => /\ lib.result.calls = <<>>
       /\ db = lib.row
       /\ lib.req \in {"ok", "no_orgo_key"} => lib.result.status = 404

\* C39, its case: the record of a failed run that never recorded a machine
\* has been asked to be reset.
C39_Witness ==
  /\ lib.fn = "resetSetup" /\ lib.done /\ lib.req = "ok"
  /\ lib.row.orgoComputerId = NULL
  /\ lib.row.status = "failed" /\ lib.row.errorMessage # NULL
  /\ lib.result.status = 404
  /\ db.status = "failed" /\ db.errorMessage # NULL

\* The places of the trace at which runFullSetup has announced a step.
C40_Announced ==
  {i \in DOMAIN lib.result.trace :
     /\ lib.result.trace[i].ev = "notice"
     /\ \E k \in DOMAIN FullSetupSteps :
          lib.result.trace[i].cmd = FullSetupSteps[k]}

\* The place of the k-th announcement.
C40_Place(k) ==
  CHOOSE i \in C40_Announced :
    Cardinality({j \in C40_Announced : j <= i}) = k

\* What the k-th step returns, invoked after its announcement.
C40_Returned(k) ==
  FullSetupStep(FullSetupSteps[k], lib.script,
                SubSeq(lib.result.trace, 1, C40_Place(k)))

\* The k-th step has been passed: it succeeded, or it is the SDK install.
C40_Passed(k) ==
  /\ ~C40_Returned(k).threw
  /\ C40_Returned(k).success \/ FullSetupSteps[k] = "sdk"

\* C40: runFullSetup invokes its steps in the order python, sdk, ssh, git,
\* clone, browser-use, sync, claude, ralph, each once at most; a step is
\* invoked only when every step before it has succeeded or is the SDK
\* install, and a step that has been passed is followed by the next one;
\* when a step other than the SDK install fails, runFullSetup returns
\* success = false with the error of that step; it returns success = true
\* only when every step was invoked and each but the SDK install succeeded;
\* it returns in every case, never throwing.
C40_FullSetupStopsAtFailure ==
  lib.fn = "runFullSetup" /\ lib.done
    => LET n == Cardinality(C40_Announced) IN
       /\ ~lib.result.threw
       /\ n \in 1..Len(FullSetupSteps)
       /\ \A k \in 1..n :
            /\ lib.result.trace[C40_Place(k)].cmd = FullSetupSteps[k]
            /\ k < n => C40_Passed(k)
       /\ C40_Passed(n) => n = Len(FullSetupSteps)
       /\ lib.result.success <=> C40_Passed(n)
       /\ ~C40_Passed(n)
            => /\ lib.result.output # ""
               /\ ~C40_Returned(n).threw
                    => lib.result.output = FullSetupError(FullSetupSteps[n])

\* C40, its case: python, ssh and git have succeeded, the vault could not be
\* cloned: runFullSetup has returned the error of the clone and has invoked
\* none of the four steps after it.
C40_Witness ==
  /\ lib.fn = "runFullSetup" /\ lib.done
  /\ Cardinality(C40_Announced) = 5
  /\ ~lib.result.success
  /\ lib.result.output = "Failed to clone vault repository"
  /\ C40_Returned(1).success /\ C40_Returned(3).success
  /\ C40_Returned(4).success

====
